---- MODULE Spec2Model ----
(***************************************************************************)
(* JobPilotAI: the application queue and apply engine (apply_engine.py),   *)
(* the rate limiter (rate_limiter.py), the scheduler (scheduler.py), the   *)
(* material manager's pairings (material_manager.py), the form filler's    *)
(* resume upload (form_filler.py) and the deduplication engine             *)
(* (dedup_engine.py).                                                      *)
(***************************************************************************)
EXTENDS Integers, Sequences, FiniteSets, TLC

VARIABLES
    queue,        \* ApplicationQueue.queue of the live ApplyEngine: Seq of ApplicationRecord
    queue_file,   \* application_queue.json as last written by save()
    eng,          \* the live ApplyEngine and its process_queue call
    clicks,       \* browser observation: <<queue position, control clicked>>
    time,         \* wall clock, whole seconds
    lastAdd,      \* observation of the most recent add_jobs calls
    lim,          \* the RateLimiter singleton: counts, timestamps, backoff, date
    today,        \* the local calendar date, as a day number
    thr,          \* the threads calling RateLimiter.wait
    waits,        \* wait() calls made to each board during the current day
    mat,          \* material_variants.json: variants and pairings
    dd,           \* the last deduplicate call: its input, result and stats
    fill,         \* the last fill_application call: its arguments and effects
    outcomes,     \* the record_pairing_outcome calls made so far
    analytics,    \* analytics_data.json
    minute,       \* datetime.now() of the scheduler, in whole minutes
    last_run,     \* Scheduler.last_run
    sch,          \* the schedule and what run_once did last
    scoring,      \* the last ScoringEngine call: strategy, score and verdicts
    disco,        \* one DiscoveryEngine.discover run in progress
    ai,           \* the AIEngine: its cache, usage ledger and last call
    persist,      \* one ApplicationQueue.save in progress and the file on disk
    qa,           \* the QABank and its last get_answer call
    calls         \* the AnalyticsEngine calls made so far, by arguments

coreVars == <<queue, queue_file, eng, clicks, time, lastAdd, lim, today, thr, waits, mat>>

schedVars == <<minute, last_run, sch>>

coreVarsButEng == <<queue, queue_file, clicks, time, lastAdd, lim, today, thr, waits, mat>>

extraVars == <<dd, fill, outcomes, analytics, schedVars>>

moreVars == <<scoring, disco, ai, persist, qa, calls>>

vars == <<coreVars, extraVars, moreVars>>

\* the calendar and the callers of the rate limiter
limVars == <<today, thr, waits>>

\* ------------------------------------------------------------------ bounds
MaxJobs == 2       \* length of a job list passed to add_jobs
MaxTime == 2       \* seconds the wall clock may advance
MaxRuns == 1       \* process_queue calls in one behaviour
MaxDay == 1        \* days the calendar may advance
CapIndeed == 2     \* daily_cap of indeed, scaled down
CapCareer == 3     \* daily_cap of career_page and default, scaled down
MinDelay == 1      \* min_delay in whole seconds, scaled down
MaxDelay == 2      \* max_delay in whole seconds, scaled down
MaxClock == 2      \* seconds the limiter's clock may advance

\* ------------------------------------------------------------ small helpers
Range(s) == {s[i] : i \in DOMAIN s}

SeqsUpTo(S, n) == UNION {[1..k -> S] : k \in 0..n}

Min2(a, b) == IF a < b THEN a ELSE b

Max2(a, b) == IF a > b THEN a ELSE b

RECURSIVE Pow(_, _)
Pow(b, e) == IF e = 0 THEN 1 ELSE b * Pow(b, e - 1)

\* ---------------------------------------------------------------- job dicts
\* A scored job dict as add_jobs reads it: raw_id/id, match, apply_type,
\* easy_apply and url (the host decides the board, _get_board_name).
JobPool ==
    { [job_id |-> "j1", title |-> "Software Engineer", match |-> 90,
       apply_type |-> "full-prep", easy_apply |-> FALSE, url |-> "greenhouse.io/j1"],
      [job_id |-> "j2", title |-> "Account Manager", match |-> 70,
       apply_type |-> "quick-apply", easy_apply |-> TRUE, url |-> "indeed.com/j2"],
      [job_id |-> "j3", title |-> "Account Manager", match |-> 40,
       apply_type |-> "skip", easy_apply |-> FALSE, url |-> "indeed.com/j3"] }

JobLists == SeqsUpTo(JobPool, MaxJobs)

\* ApplyEngine._get_board_name: the first pattern contained in the url
\* decides; an empty url is "default", an unknown host "career_page".
_get_board_name(url) ==
    CASE url = "" -> "default"
      [] url \in {"indeed.com/j2", "indeed.com/j3"} -> "indeed"
      [] url \in {"greenhouse.io/j1"} -> "career_page"
      [] OTHER -> "career_page"

\* ------------------------------------------------------- ApplicationRecord
ApplicationRecord(id, job) ==
    [ id |-> id, job_id |-> job.job_id, job_title |-> job.title,
      url |-> job.url, score |-> job.match,
      apply_type |-> job.apply_type, easy_apply |-> job.easy_apply,
      status |-> "queued", materials_ready |-> FALSE, fields_filled |-> <<>>,
      screenshot_path |-> "", submitted_at |-> "",
      errors |-> 0, action_log |-> <<>>,
      resume_variant_id |-> "", material_pairing_id |-> "" ]

\* ApplicationRecord.log_action: append one entry to the action log
log_action(rec, action) ==
    [rec EXCEPT !.action_log = Append(@, action)]

\* ------------------------------------------------------- ApplicationQueue
\* ApplicationQueue._load: the records of the JSON file
_load(file) == file

RECURSIVE add_jobs_loop(_, _, _, _, _)
\* the for loop of add_jobs: q the queue so far, existing the job ids seen,
\* added the running count; returns the queue and the count
add_jobs_loop(q, jobs, existing, added, ts) ==
    IF jobs = <<>> THEN [queue |-> q, added |-> added]
    ELSE LET job == Head(jobs) IN
         IF job.job_id \in existing
             THEN add_jobs_loop(q, Tail(jobs), existing, added, ts)
         ELSE IF job.apply_type = "skip"
             THEN add_jobs_loop(q, Tail(jobs), existing, added, ts)
         ELSE add_jobs_loop(
                  Append(q, log_action(ApplicationRecord(<<ts, added>>, job), "queued")),
                  Tail(jobs), existing \cup {job.job_id}, added + 1, ts)

\* add_jobs with existing_ids not taken from the queue
add_jobs_forgetful(q, jobs, ts) ==
    add_jobs_loop(q, jobs, {}, 0, ts)

\* ApplicationQueue.add_jobs(jobs) called at clock reading ts
add_jobs(q, jobs, ts) ==
    add_jobs_loop(q, jobs, {q[i].job_id : i \in DOMAIN q}, 0, ts)

\* ApplicationQueue.get_pending(limit): positions of the queued records,
\* by score descending (stable), cut to limit when limit is truthy
RECURSIVE QueuedFrom(_, _)
\* positions i >= from of the records whose status is queued, in queue order
QueuedFrom(q, from) ==
    IF from > Len(q) THEN <<>>
    ELSE IF q[from].status = "queued" THEN <<from>> \o QueuedFrom(q, from + 1)
    ELSE QueuedFrom(q, from + 1)

RECURSIVE SortByScore(_, _)
\* list.sort(key=score, reverse=True): stable, highest score first
SortByScore(q, ps) ==
    IF ps = <<>> THEN <<>>
    ELSE LET best == CHOOSE i \in DOMAIN ps :
                         /\ \A j \in DOMAIN ps : q[ps[j]].score <= q[ps[i]].score
                         /\ \A j \in 1..(i - 1) : q[ps[j]].score < q[ps[i]].score
             rest == [k \in 1..(Len(ps) - 1) |-> IF k < best THEN ps[k] ELSE ps[k + 1]]
         IN <<ps[best]>> \o SortByScore(q, rest)

get_pending(q, limit) ==
    LET pending == SortByScore(q, QueuedFrom(q, 1))
    IN IF limit > 0 THEN SubSeq(pending, 1, Min2(limit, Len(pending))) ELSE pending

\* position update_status acts on: the first record with that id, 0 if none
FirstWithId(q, id) ==
    IF \E i \in DOMAIN q : q[i].id = id
    THEN CHOOSE i \in DOMAIN q : q[i].id = id /\ \A j \in 1..(i - 1) : q[j].id # id
    ELSE 0

\* ApplicationQueue.update_status(app_id, status, **kwargs): kw is the set of
\* overridden attributes with their values
update_status(q, id, status, kw) ==
    LET p == FirstWithId(q, id) IN
    IF p = 0 THEN q
    ELSE [q EXCEPT ![p] =
            [f \in DOMAIN q[p] |->
                IF f \in DOMAIN kw THEN kw[f]
                ELSE IF f = "status" THEN status
                ELSE IF f = "action_log"
                    THEN Append(q[p].action_log, "status_change:" \o status)
                ELSE q[p][f]]]

NoKw == [f \in {} |-> 0]

\* ------------------------------------------------------------ RateLimiter
BoardNames == {"indeed", "linkedin", "career_page", "default"}

BackoffFactor == 2     \* "backoff_factor": 2.0
MaxBackoff == 5        \* ceiling of the backoff level
NeverRequested == -100 \* defaultdict(float): timestamp 0.0, long before the run

\* DEFAULT_BOARD_RATES merged with custom_rates
rates ==
    [b \in BoardNames |->
        [min_delay |-> MinDelay, max_delay |-> MaxDelay,
         daily_cap |-> IF b = "indeed" THEN CapIndeed ELSE CapCareer,
         backoff_factor |-> BackoffFactor]]

\* RateLimiter._get_rate: the board's rate, else the default rate
_get_rate(board) == IF board \in DOMAIN rates THEN rates[board] ELSE rates["default"]

\* RateLimiter.__init__ on date d
RateLimiter(d) ==
    [ daily_counts |-> [b \in BoardNames |-> 0],
      last_request |-> [b \in BoardNames |-> NeverRequested],
      backoff_level |-> [b \in BoardNames |-> 0],
      daily_date |-> d ]

\* a reset that clears the counts and keeps the backoff levels
_reset_daily_counts_only(l, d) ==
    IF d # l.daily_date
    THEN [l EXCEPT !.daily_counts = [b \in BoardNames |-> 0],
                   !.daily_date = d]
    ELSE l

\* RateLimiter._reset_daily_if_needed with date.today() = d
_reset_daily_if_needed(l, d) ==
    IF d # l.daily_date
    THEN [l EXCEPT !.daily_counts = [b \in BoardNames |-> 0],
                   !.backoff_level = [b \in BoardNames |-> 0],
                   !.daily_date = d]
    ELSE l

\* RateLimiter.can_request: the limiter after the call and the answer
can_request(l, board, d) ==
    LET l1 == _reset_daily_if_needed(l, d)
    IN [lim |-> l1, ret |-> l1.daily_counts[board] < _get_rate(board).daily_cap]

\* a first locked section that lets one request past the cap
wait_reserve_late(l, board, base, now, d) ==
    LET l1 == _reset_daily_if_needed(l, d)
    IN IF l1.daily_counts[board] > _get_rate(board).daily_cap
       THEN [lim |-> l1, allowed |-> FALSE, wait_time |-> 0]
       ELSE [lim |-> [l1 EXCEPT !.daily_counts[board] = @ + 1],
             allowed |-> TRUE, wait_time |-> 0]

\* RateLimiter.wait, first locked section: base is the value drawn by
\* random.uniform(min_delay, max_delay), now is time.time(), d is date.today()
wait_reserve(l, board, base, now, d) ==
    LET l1 == _reset_daily_if_needed(l, d)
        rate == _get_rate(board)
    IN IF l1.daily_counts[board] >= rate.daily_cap
       THEN [lim |-> l1, allowed |-> FALSE, wait_time |-> 0]
       ELSE LET backoff == Pow(rate.backoff_factor, l1.backoff_level[board])
                delay == base * backoff
                elapsed == now - l1.last_request[board]
            IN [lim |-> [l1 EXCEPT !.daily_counts[board] = @ + 1],
                allowed |-> TRUE,
                wait_time |-> Max2(0, delay - elapsed)]

\* RateLimiter.wait, second locked section: stamp the request after the sleep
wait_stamp(l, board, now) == [l EXCEPT !.last_request[board] = now]

\* a report_success without the floor
report_success_unfloored(l, board) ==
    [l EXCEPT !.backoff_level[board] = @ - 1]

\* RateLimiter.report_success
report_success(l, board) ==
    IF l.backoff_level[board] > 0
    THEN [l EXCEPT !.backoff_level[board] = @ - 1] ELSE l

\* RateLimiter.report_throttled
report_throttled(l, board) ==
    [l EXCEPT !.backoff_level[board] = Min2(@ + 1, MaxBackoff)]

\* RateLimiter.report_blocked
report_blocked(l, board) == [l EXCEPT !.backoff_level[board] = MaxBackoff]

\* -------------------------------------------------------- MaterialManager
OUTCOME_WEIGHTS ==
    [callback |-> 1, interview |-> 3, offer |-> 5, rejected |-> -1, ghosted |-> -2]

MIN_APPS_FOR_FULL_CONFIDENCE == 3

\* round(a / b, .) for b > 0, on integers scaled by the caller
RoundDiv(a, b) == (2 * a + b) \div (2 * b)

\* a resume or cover letter variant as create_*_variant stores it
Variant(id, sector, active, path) ==
    [ id |-> id, sector |-> sector, is_active |-> active, file_path |-> path,
      applications_used |-> 0, callbacks |-> 0, interviews |-> 0, offers |-> 0,
      rejections |-> 0, ghosted |-> 0,
      callback_rate |-> 0, interview_rate |-> 0, offer_rate |-> 0, score |-> 0 ]

\* recalculate_rates_dict: rates in 1/10000, score in 1/1000
recalculate_rates_dict(v) ==
    LET apps == Max2(v.applications_used, 1)
        raw == v.callbacks * OUTCOME_WEIGHTS.callback
               + v.interviews * OUTCOME_WEIGHTS.interview
               + v.offers * OUTCOME_WEIGHTS.offer
               + v.rejections * OUTCOME_WEIGHTS.rejected
               + v.ghosted * OUTCOME_WEIGHTS.ghosted
        conf == Min2(MIN_APPS_FOR_FULL_CONFIDENCE, v.applications_used)
    IN [v EXCEPT !.callback_rate = RoundDiv(10000 * v.callbacks, apps),
                 !.interview_rate = RoundDiv(10000 * v.interviews, apps),
                 !.offer_rate = RoundDiv(10000 * v.offers, apps),
                 !.score = RoundDiv(1000 * raw * conf,
                                    MIN_APPS_FOR_FULL_CONFIDENCE * apps)]

\* position of the first element of seq s whose id is id, 0 when there is none
PosOfId(s, id) ==
    IF \E i \in DOMAIN s : s[i].id = id
    THEN CHOOSE i \in DOMAIN s : s[i].id = id /\ \A j \in 1..(i - 1) : s[j].id # id
    ELSE 0

\* MaterialManager.get_resume_variant / get_cover_letter_variant / get_pairing
get_resume_variant(m, id) == PosOfId(m.resume_variants, id)
get_cover_letter_variant(m, id) == PosOfId(m.cover_letter_variants, id)
get_pairing(m, id) == PosOfId(m.material_pairings, id)

RECURSIVE FilterVariants(_, _, _)
\* the variants of s, in order, kept by list_*_variants(active_only, sector);
\* sector "" stands for no sector filter
FilterVariants(s, active_only, sector) ==
    IF s = <<>> THEN <<>>
    ELSE LET v == Head(s)
             keep == /\ (active_only => v.is_active)
                     /\ (sector # "" => (v.sector = sector \/ v.sector = "general"))
         IN (IF keep THEN <<v>> ELSE <<>>) \o FilterVariants(Tail(s), active_only, sector)

list_resume_variants(m, active_only, sector) ==
    FilterVariants(m.resume_variants, active_only, sector)

list_cover_letter_variants(m, active_only, sector) ==
    FilterVariants(m.cover_letter_variants, active_only, sector)

\* _epsilon_greedy_select: the variants it may return (exploration may pick
\* any candidate, exploitation one of the top scorers)
_epsilon_greedy_select(cands) == {cands[i].id : i \in DOMAIN cands}

\* select_best_materials: the set of (resume id, cover letter id) it may return
select_best_materials(m, sector) ==
    LET r0 == list_resume_variants(m, TRUE, sector)
        c0 == list_cover_letter_variants(m, TRUE, sector)
        rc == IF r0 = <<>> THEN list_resume_variants(m, TRUE, "general") ELSE r0
        cc == IF c0 = <<>> THEN list_cover_letter_variants(m, TRUE, "general") ELSE c0
    IN IF rc = <<>> THEN {<<"", "">>}
       ELSE IF cc = <<>> THEN {<<r, "">> : r \in _epsilon_greedy_select(rc)}
       ELSE _epsilon_greedy_select(rc) \X _epsilon_greedy_select(cc)

\* bump applications_used of the variant at position p of s (p = 0: no variant)
UseVariant(s, p) ==
    IF p = 0 THEN s
    ELSE [s EXCEPT ![p] =
             recalculate_rates_dict([@ EXCEPT !.applications_used = @ + 1])]

\* MaterialManager.create_material_pairing at clock reading ts
create_material_pairing(m, application_id, job_id, rv_id, cv_id, ts) ==
    LET pid == <<"pair", ts, application_id>>
        pairing == [ id |-> pid, application_id |-> application_id,
                     job_id |-> job_id, resume_variant_id |-> rv_id,
                     cover_letter_variant_id |-> cv_id, outcome |-> "" ]
    IN [ pairing_id |-> pid,
         mat |-> [ resume_variants |->
                       UseVariant(m.resume_variants, get_resume_variant(m, rv_id)),
                   cover_letter_variants |->
                       UseVariant(m.cover_letter_variants,
                                  get_cover_letter_variant(m, cv_id)),
                   material_pairings |-> Append(m.material_pairings, pairing) ] ]

\* _increment_outcome_counter, then recalculate_rates_dict, on position p of s
CountOutcome(s, p, outcome) ==
    IF p = 0 THEN s
    ELSE LET v == s[p]
             w == CASE outcome = "callback" -> [v EXCEPT !.callbacks = @ + 1]
                    [] outcome = "interview" -> [v EXCEPT !.interviews = @ + 1]
                    [] outcome = "offer" -> [v EXCEPT !.offers = @ + 1]
                    [] outcome = "rejected" -> [v EXCEPT !.rejections = @ + 1]
                    [] outcome = "ghosted" -> [v EXCEPT !.ghosted = @ + 1]
                    [] OTHER -> v
         IN [s EXCEPT ![p] = recalculate_rates_dict(w)]

\* record_pairing_outcome without its two early returns: the outcome is
\* stamped on whatever get_pairing finds and the document is saved
record_pairing_outcome_unvalidated(m, pairing_id, outcome) ==
    LET p == get_pairing(m, pairing_id) IN
    IF p = 0 THEN [mat |-> m, ok |-> TRUE, saved |-> TRUE]
    ELSE LET pr == m.material_pairings[p] IN
         [ ok |-> TRUE, saved |-> TRUE,
           mat |-> [ resume_variants |->
                         CountOutcome(m.resume_variants,
                             get_resume_variant(m, pr.resume_variant_id), outcome),
                     cover_letter_variants |->
                         CountOutcome(m.cover_letter_variants,
                             get_cover_letter_variant(m, pr.cover_letter_variant_id),
                             outcome),
                     material_pairings |->
                         [m.material_pairings EXCEPT ![p].outcome = outcome] ] ]

\* MaterialManager.record_pairing_outcome: the document after the call, the
\* value returned and whether save() rewrote the data file
record_pairing_outcome(m, pairing_id, outcome) ==
    IF outcome \notin DOMAIN OUTCOME_WEIGHTS
    THEN [mat |-> m, ok |-> FALSE, saved |-> FALSE]
    ELSE LET p == get_pairing(m, pairing_id) IN
         IF p = 0 THEN [mat |-> m, ok |-> FALSE, saved |-> FALSE]
         ELSE LET pr == m.material_pairings[p] IN
              [ ok |-> TRUE, saved |-> TRUE,
                mat |-> [ resume_variants |->
                              CountOutcome(m.resume_variants,
                                  get_resume_variant(m, pr.resume_variant_id), outcome),
                          cover_letter_variants |->
                              CountOutcome(m.cover_letter_variants,
                                  get_cover_letter_variant(m, pr.cover_letter_variant_id),
                                  outcome),
                          material_pairings |->
                              [m.material_pairings EXCEPT ![p].outcome = outcome] ] ]

\* material_manager.detect_sector on the job titles of the model: "software"
\* is a tech keyword, no keyword of any sector occurs in the other titles
detect_sector(title) == IF title = "Software Engineer" THEN "tech" ELSE "general"

EmptyMaterials ==
    [resume_variants |-> <<>>, cover_letter_variants |-> <<>>, material_pairings |-> <<>>]

\* ------------------------------------------------------------- FormFiller
\* Paths are names relative to the working directory; the ones below resolve
\* inside it, any other path resolves outside.
InsidePaths == {"resume.pdf", "resume_variants/tech.pdf"}

\* security.validate_file_path(path, base_dir): the resolved path, or
\* "ValueError" when the path is empty or resolves outside base_dir
validate_file_path(path) ==
    IF path = "" THEN "ValueError"
    ELSE IF path \in InsidePaths THEN path
    ELSE "ValueError"

\* fill_application lines 224-245: the value left in _active_resume_path
\* ("" stands for None)
ResolveVariantPath(m, resume_variant_id) ==
    IF resume_variant_id = "" THEN ""
    ELSE LET p == get_resume_variant(m, resume_variant_id) IN
         IF p = 0 THEN ""
         ELSE LET fp == m.resume_variants[p].file_path IN
              IF fp = "" THEN ""
              ELSE IF validate_file_path(fp) = "ValueError" THEN ""
              ELSE validate_file_path(fp)

RECURSIVE UploadLoop(_, _, _)
\* the loop of _upload_resume over the page's file inputs: each input is
\* [label, fails]; the first input labelled resume/cv/upload that accepts the
\* file ends the loop
UploadLoop(inputs, path, acc) ==
    IF inputs = <<>> THEN acc
    ELSE LET fi == Head(inputs) IN
         IF fi.label = "resume"
         THEN IF fi.fails
              THEN UploadLoop(Tail(inputs), path, [acc EXCEPT !.errors = @ + 1])
              ELSE [acc EXCEPT !.uploaded = path,
                               !.fields_filled = Append(@, "resume")]
         ELSE UploadLoop(Tail(inputs), path, acc)

\* FormFiller._upload_resume: resume_path is self.resume_path ("" for None),
\* exists whether that file exists, active the _active_resume_path
_upload_resume(page, resume_path, exists, active, acc) ==
    IF resume_path = "" \/ ~exists
    THEN [acc EXCEPT !.errors = @ + 1]
    ELSE UploadLoop(page.file_inputs, resume_path, acc)

\* FormFiller.fill_application on a page: the result dict, with the file the
\* browser received (uploaded) and the variant path that was resolved
fill_application(page, dry_run, resume_variant_id, m, resume_path, exists) ==
    LET active == ResolveVariantPath(m, resume_variant_id)
        filled == [ fields_filled |-> page.fields, errors |-> 0,
                    screenshot_path |-> "", uploaded |-> "",
                    active_resume_path |-> active ]
        up == _upload_resume(page, resume_path, exists, active, filled)
    IN IF dry_run THEN up ELSE [up EXCEPT !.screenshot_path = "screenshots/app.png"]

\* ------------------------------------------------------------ ApplyEngine
\* What the browser finds on a record's page:
\*   nav          outcome of page.goto: "ok", "timeout" (PlaywrightTimeout), "error"
\*   easy         _try_easy_apply: "none" no Easy Apply control visible, "ok" one
\*                is clicked and the quick fill returns, "fail" it is clicked and
\*                the quick fill raises (swallowed), no other control visible
\*   apply_ctl    first visible control of _click_apply_button's selector list
\*   submit_visible  whether _click_submit finds a visible submit control
\*   fields       the fields the filler fills on the form
\*   file_inputs  the form's file inputs, in document order
\*   fill_raises  whether fill_application raises (e.g. the screenshot fails)
Pages ==
    [ nav : {"timeout", "error"}, easy : {"none"}, apply_ctl : {"none"},
      submit_visible : {FALSE}, fields : {<<>>},
      file_inputs : {<<>>}, fill_raises : {FALSE} ]
    \cup
    [ nav : {"ok"}, easy : {"none", "ok", "fail"},
      apply_ctl : {"none", "apply", "submit_application"},
      submit_visible : BOOLEAN, fields : {<<"email">>},
      file_inputs : {<<[label |-> "resume", fails |-> FALSE]>>},
      fill_raises : BOOLEAN ]
    \cup
    [ nav : {"ok"}, easy : {"none"}, apply_ctl : {"none"},
      submit_visible : {TRUE}, fields : {<<>>},
      file_inputs : {<<>>}, fill_raises : {FALSE} ]

Modes == {"semi-auto", "batch", "full-auto"}

NoResults == [processed |-> 0, filled |-> 0, submitted |-> 0, errors |-> 0, details |-> 0]

IdleEngine ==
    [ pc |-> "idle", mode |-> "semi-auto", dry_run |-> FALSE, caller |-> "none",
      pending |-> <<>>, taken |-> 0, results |-> NoResults,
      moved |-> {}, finished |-> {}, runs |-> 0,
      refused |-> {}, navigated |-> {} ]

\* FormFiller.resume_path (_find_resume) and whether that file exists
DefaultResume == "resume.pdf"

\* process_queue lines 198-238, after ApplyEngine(...) and engine.mode = mode:
\* the engine once the call has taken its pending records; a call that finds
\* nothing to do returns at once and its engine is dropped
StartEngine(q, mode, dry_run, limit, has_playwright, caller, runs) ==
    LET pending == IF has_playwright THEN get_pending(q, limit) ELSE <<>>
    IN IF pending = <<>>
       THEN [IdleEngine EXCEPT !.pc = "returned", !.caller = caller, !.runs = runs]
       ELSE [ pc |-> "loop", mode |-> mode, dry_run |-> dry_run, caller |-> caller,
              pending |-> pending, taken |-> Len(pending), results |-> NoResults,
              moved |-> {}, finished |-> {}, runs |-> runs,
              refused |-> {}, navigated |-> {} ]

\* run_apply / cmd_full_cycle: a fresh ApplyEngine loads the queue file, the
\* mode is set and process_queue starts
ProcessQueueStart ==
    /\ eng.pc # "loop"
    /\ eng.runs < MaxRuns
    /\ \E mode \in Modes, dry_run \in BOOLEAN, limit \in 0..1, hp \in BOOLEAN :
           /\ queue' = _load(queue_file)
           /\ eng' = StartEngine(_load(queue_file), mode, dry_run, limit, hp, "cli",
                                 eng.runs + 1)
    /\ clicks' = {}
    /\ UNCHANGED <<moreVars, queue_file, time, lastAdd, lim, limVars, mat, extraVars>>

\* the except branches of process_queue (lines 363-378) for the record whose
\* id is id
RecordError(q, e, id, m, l, cl) ==
    [ queue |-> update_status(q, id, "error", [errors |-> 1]),
      eng |-> [e EXCEPT !.pending = Tail(@),
                        !.results.errors = @ + 1,
                        !.results.processed = @ + 1,
                        !.results.details = @ + 1],
      mat |-> m, lim |-> l, clicks |-> cl, saved |-> TRUE ]

\* the body of the for loop of process_queue (lines 240-378) for the head of
\* pending, on page pg with the material selection sel; ts is the clock, d
\* the date; clicks are the controls clicked on this record's page
ProcessOne(q, e, m, l, pg, sel, ts, d) ==
    LET p == Head(e.pending)
        id == q[p].id
        hit == FirstWithId(q, id)
        q1 == update_status(q, id, "filling", NoKw)
        board == _get_board_name(q[p].url)
        w == wait_reserve(l, board, _get_rate(board).min_delay, ts, d)
        \* lines 251-252: the value wait returns is dropped and page.goto
        \* follows; refused holds the records wait answered False for,
        \* navigated the records whose page was requested
        e1 == [e EXCEPT !.moved = @ \cup {hit},
                        !.refused = IF w.allowed THEN @ ELSE @ \cup {p},
                        !.navigated = @ \cup {p}]
        l1 == IF w.allowed THEN wait_stamp(w.lim, board, ts) ELSE w.lim
        easyTried == q1[p].easy_apply /\ pg.easy # "none"
        q2 == IF easyTried
              THEN [q1 EXCEPT ![p] = log_action(@, "easy_apply_clicked")] ELSE q1
        cl2 == IF easyTried THEN {"easy_apply"} ELSE {}
    IN
    IF pg.nav # "ok" THEN RecordError(q1, e1, id, m, l1, {})
    ELSE IF easyTried /\ pg.easy = "ok"
    THEN \* lines 256-264: counted as filled, then `continue`
         [ queue |-> q2,
           eng |-> [e1 EXCEPT !.pending = Tail(@),
                              !.finished = @ \cup {p},
                              !.results.filled = @ + 1,
                              !.results.submitted =
                                  IF ~e.dry_run /\ e.mode = "full-auto" THEN @ + 1 ELSE @],
           mat |-> m, lim |-> l1, clicks |-> cl2, saved |-> FALSE ]
    ELSE
    LET cl3 == IF pg.apply_ctl = "none" THEN cl2 ELSE cl2 \cup {pg.apply_ctl}
        rv == sel[1]
        cp == create_material_pairing(m, id, q2[p].job_id, rv, sel[2], ts)
        m1 == IF rv # "" THEN cp.mat ELSE m
        q3 == IF rv # ""
              THEN [q2 EXCEPT ![p] =
                       log_action([@ EXCEPT !.resume_variant_id = rv,
                                            !.material_pairing_id = cp.pairing_id],
                                  "material_selected")]
              ELSE q2
        fr == fill_application(pg, e.dry_run, rv, m1, DefaultResume, TRUE)
        q4 == [q3 EXCEPT ![p].fields_filled = fr.fields_filled,
                         ![p].errors = fr.errors,
                         ![p].screenshot_path = fr.screenshot_path,
                         ![p].materials_ready = Len(fr.fields_filled) > 0]
        e4 == [e1 EXCEPT !.pending = Tail(@),
                         !.finished = @ \cup {p},
                         !.results.filled = @ + 1,
                         !.results.processed = @ + 1,
                         !.results.details = @ + 1]
    IN
    IF pg.fill_raises THEN RecordError(q3, e1, id, m1, l1, cl3)
    ELSE IF e.dry_run
    THEN [ queue |-> update_status(q4, id, "ready-for-review",
                        [fields_filled |-> fr.fields_filled,
                         screenshot_path |-> fr.screenshot_path]),
           eng |-> e4, mat |-> m1, lim |-> l1, clicks |-> cl3, saved |-> TRUE ]
    ELSE IF e.mode = "full-auto"
    THEN IF pg.submit_visible
         THEN [ queue |-> update_status(q4, id, "submitted", [submitted_at |-> "now"]),
                eng |-> [e4 EXCEPT !.results.submitted = @ + 1],
                mat |-> m1, lim |-> l1, clicks |-> cl3 \cup {"submit"},
                saved |-> TRUE ]
         ELSE [ queue |-> update_status(q4, id, "ready-for-review", NoKw),
                eng |-> e4, mat |-> m1, lim |-> l1, clicks |-> cl3, saved |-> TRUE ]
    ELSE \* batch and semi-auto
         [ queue |-> update_status(q4, id, "ready-for-review",
                        [materials_ready |-> TRUE]),
           eng |-> e4, mat |-> m1, lim |-> l1, clicks |-> cl3, saved |-> TRUE ]

\* one iteration of the for loop of process_queue; only update_status saves,
\* so the file keeps the last saved queue
ProcessRecordOn(pages) ==
    /\ eng.pc = "loop"
    /\ eng.pending # <<>>
    /\ \E pg \in pages :
         \E sel \in select_best_materials(mat,
                        detect_sector(queue[Head(eng.pending)].job_title)) :
           LET r == ProcessOne(queue, eng, mat, lim, pg, sel, time, today)
           IN /\ queue' = r.queue
              /\ eng' = r.eng
              /\ mat' = r.mat
              /\ lim' = r.lim
              /\ clicks' = r.clicks
              /\ queue_file' = IF r.saved THEN r.queue
                               ELSE update_status(queue, queue[Head(eng.pending)].id,
                                                  "filling", NoKw)
    /\ UNCHANGED <<moreVars, time, lastAdd, limVars, extraVars>>

ProcessRecord == ProcessRecordOn(Pages)

\* the pages the scheduler's unattended passes meet
SchedPages ==
    {pg \in Pages : /\ pg.nav = "ok" /\ ~pg.fill_raises /\ pg.fields # <<>>
                    /\ pg.easy \in {"none", "ok"}
                    /\ pg.apply_ctl \in {"none", "submit_application"}}

\* process_queue lines 380-392: the browser closes, the results are written
\* and returned
ProcessQueueFinish ==
    /\ eng.pc = "loop"
    /\ eng.pending = <<>>
    /\ eng' = [eng EXCEPT !.pc = "returned"]
    /\ UNCHANGED <<moreVars, queue, queue_file, clicks, time, lastAdd, lim, limVars, mat, extraVars>>

\* cmd_full_cycle lines 195-196: a fresh ApplyEngine loads the queue file and
\* add_jobs(jobs) appends and saves
AddJobs ==
    /\ eng.pc # "loop"
    /\ \E jobs \in JobLists :
         LET r == add_jobs(_load(queue_file), jobs, time)
         IN /\ queue' = r.queue
            /\ queue_file' = r.queue
            /\ lastAdd' = [ jobs |-> jobs, added |-> r.added,
                            before |-> Len(_load(queue_file)),
                            repeat |-> lastAdd.calls > 0 /\ jobs = lastAdd.jobs,
                            calls |-> Min2(lastAdd.calls + 1, 2) ]
    /\ UNCHANGED <<moreVars, eng, clicks, time, lim, limVars, mat, extraVars>>

\* the wall clock passes a second
Tick ==
    /\ time < MaxTime
    /\ time' = time + 1
    /\ UNCHANGED <<moreVars, queue, queue_file, eng, clicks, lastAdd, lim, limVars, mat, extraVars>>

\* ---- the state before any command has run
NoThreads == <<>>

NoWaits == <<>>

NoDedup == <<>>

NoFill == <<>>

NoSched == <<>>

NoScoring == <<>>

NoDisco == <<>>

NoAI == <<>>

NoPersist == <<>>

NoQA == <<>>
NoCalls == <<>>

\* the components added after the scheduler stay as constructed
ParkMore ==
    /\ scoring = NoScoring
    /\ disco = NoDisco
    /\ ai = NoAI
    /\ persist = NoPersist
    /\ qa = NoQA
    /\ calls = NoCalls

\* the components a specification does not exercise stay as constructed
ParkExtra ==
    /\ dd = NoDedup
    /\ fill = NoFill
    /\ outcomes = <<>>
    /\ analytics = <<>>
    /\ minute = 0
    /\ last_run = <<>>
    /\ sch = NoSched

NoAdd == [jobs |-> <<>>, added |-> 0, before |-> 0, repeat |-> FALSE, calls |-> 0]

OneEachMaterials ==
    [ resume_variants |->
          <<Variant("rv_general", "general", TRUE, "resume_variants/tech.pdf")>>,
      cover_letter_variants |-> <<Variant("cv_general", "general", TRUE, "")>>,
      material_pairings |-> <<>> ]

\* ---- the queue operations alone: add_jobs calls as the clock advances
InitQueue ==
    /\ queue = <<>>
    /\ queue_file = <<>>
    /\ eng = IdleEngine
    /\ clicks = {}
    /\ time = 0
    /\ lastAdd = NoAdd
    /\ lim = RateLimiter(0)
    /\ today = 0
    /\ thr = NoThreads
    /\ waits = NoWaits
    /\ ParkExtra
    /\ ParkMore
    /\ mat = EmptyMaterials

NextQueue == AddJobs \/ Tick

SpecQueue == InitQueue /\ [][NextQueue]_vars

\* ---- the apply engine on a queue that earlier add_jobs calls have written
QueuesOnDisk ==
    {add_jobs(add_jobs(<<>>, l1, 0).queue, l2, 0).queue : l1, l2 \in JobLists}

InitApply ==
    /\ queue_file \in QueuesOnDisk
    /\ queue = queue_file
    /\ eng = IdleEngine
    /\ clicks = {}
    /\ time = 0
    /\ lastAdd = NoAdd
    /\ lim = RateLimiter(0)
    /\ today = 0
    /\ thr = NoThreads
    /\ waits = NoWaits
    /\ ParkExtra
    /\ ParkMore
    /\ mat \in {EmptyMaterials, OneEachMaterials}

NextApply == ProcessQueueStart \/ ProcessRecord \/ ProcessQueueFinish

SpecApply == InitApply /\ [][NextApply]_vars

\* cmd_status / cmd_queue after a run: a new process constructs
\* ApplicationQueue, which loads the queue file
ReloadQueue ==
    /\ eng.pc = "returned"
    /\ queue' = _load(queue_file)
    /\ eng' = [eng EXCEPT !.pc = "idle"]
    /\ UNCHANGED <<moreVars, queue_file, clicks, time, lastAdd, lim, limVars, mat,
                   extraVars>>

\* ---- process_queue in a process whose limiter the discovery pass of the
\* ---- same command has already used (get_limiter returns one limiter per
\* ---- process)
UsedLimiters ==
    { [RateLimiter(0) EXCEPT !.daily_counts["indeed"] = n,
                             !.daily_counts["career_page"] = m] :
          n \in 0..CapIndeed, m \in 0..CapCareer }

InitCap ==
    /\ queue_file \in QueuesOnDisk
    /\ queue = queue_file
    /\ eng = IdleEngine
    /\ clicks = {}
    /\ time = 0
    /\ lastAdd = NoAdd
    /\ lim \in UsedLimiters
    /\ today = 0
    /\ thr = NoThreads
    /\ waits = NoWaits
    /\ ParkExtra
    /\ ParkMore
    /\ mat = OneEachMaterials

NextCap == ProcessQueueStart \/ ProcessRecordOn(SchedPages) \/ ProcessQueueFinish

SpecCap == InitCap /\ [][NextCap]_vars

NextReload == ProcessQueueStart \/ ProcessRecord \/ ProcessQueueFinish \/ ReloadQueue

\* ---- process_queue, then another command reads the queue
SpecReload == InitApply /\ [][NextReload]_vars

\* ================================================================ claims
\* ---- the rate limiter under concurrent callers
Threads == {"t1", "t2"}

\* the board the threads request from, and the boards they ask about
LimiterBoards == {"indeed"}

AskedBoards == {"indeed", "career_page"}

\* the board whose responses the callers report on
ReportedBoards == {"indeed"}

IdleThread == [pc |-> "idle", board |-> "", wake |-> 0]

\* wait(board), up to the release of the lock: cap check, delay, reservation
WaitEnter ==
    \E t \in Threads, board \in LimiterBoards, base \in MinDelay..MaxDelay :
        /\ thr[t].pc = "idle"
        /\ waits[board] <= _get_rate(board).daily_cap   \* one call past the cap
        /\ LET r == wait_reserve(lim, board, base, time, today)
           IN /\ lim' = r.lim
              /\ thr' = [thr EXCEPT ![t] =
                    IF ~r.allowed
                    THEN IdleThread
                    ELSE [pc |-> IF r.wait_time > 0 THEN "sleep" ELSE "stamp",
                          board |-> board, wake |-> time + r.wait_time]]
        /\ waits' = [waits EXCEPT ![board] = @ + 1]
        /\ UNCHANGED <<moreVars, queue, queue_file, eng, clicks, time, lastAdd, today, mat, extraVars>>

\* time.sleep(wait_time) returns
WaitWake ==
    \E t \in Threads :
        /\ thr[t].pc = "sleep"
        /\ time >= thr[t].wake
        /\ thr' = [thr EXCEPT ![t].pc = "stamp", ![t].wake = 0]
        /\ UNCHANGED <<moreVars, queue, queue_file, eng, clicks, time, lastAdd, lim, today,
                       waits, mat, extraVars>>

\* wait(board), second locked section, and return True
WaitStamp ==
    \E t \in Threads :
        /\ thr[t].pc = "stamp"
        /\ lim' = wait_stamp(lim, thr[t].board, time)
        /\ thr' = [thr EXCEPT ![t] = IdleThread]
        /\ UNCHANGED <<moreVars, queue, queue_file, eng, clicks, time, lastAdd, today,
                       waits, mat, extraVars>>

CanRequest ==
    \E board \in AskedBoards :
        /\ lim' = can_request(lim, board, today).lim
        /\ UNCHANGED <<moreVars, queue, queue_file, eng, clicks, time, lastAdd, limVars, mat, extraVars>>

ReportSuccess ==
    \E board \in ReportedBoards :
        /\ lim' = report_success(lim, board)
        /\ UNCHANGED <<moreVars, queue, queue_file, eng, clicks, time, lastAdd, limVars, mat, extraVars>>

ReportThrottled ==
    \E board \in ReportedBoards :
        /\ lim' = report_throttled(lim, board)
        /\ UNCHANGED <<moreVars, queue, queue_file, eng, clicks, time, lastAdd, limVars, mat, extraVars>>

ReportBlocked ==
    \E board \in ReportedBoards :
        /\ lim' = report_blocked(lim, board)
        /\ UNCHANGED <<moreVars, queue, queue_file, eng, clicks, time, lastAdd, limVars, mat, extraVars>>

\* a second passes
ClockTick ==
    /\ time < MaxClock
    /\ time' = time + 1
    /\ UNCHANGED <<moreVars, queue, queue_file, eng, clicks, lastAdd, lim, limVars, mat, extraVars>>

\* midnight passes: date.today() changes
DateAdvance ==
    /\ today < MaxDay
    /\ today' = today + 1
    /\ waits' = [b \in BoardNames |-> 0]
    /\ UNCHANGED <<moreVars, queue, queue_file, eng, clicks, time, lastAdd, lim, thr, mat, extraVars>>

InitLimiter ==
    /\ queue = <<>>
    /\ queue_file = <<>>
    /\ eng = IdleEngine
    /\ clicks = {}
    /\ time = 0
    /\ lastAdd = NoAdd
    /\ lim = RateLimiter(0)
    /\ today = 0
    /\ thr = [t \in Threads |-> IdleThread]
    /\ waits = [b \in BoardNames |-> 0]
    /\ mat = EmptyMaterials
    /\ ParkExtra
    /\ ParkMore

NextLimiter ==
    \/ WaitEnter \/ WaitWake \/ WaitStamp \/ CanRequest
    \/ ReportSuccess \/ ReportThrottled \/ ReportBlocked
    \/ ClockTick \/ DateAdvance

SpecLimiter == InitLimiter /\ [][NextLimiter]_vars

\* ---- the report calls alone, on every source
BackoffSuccess ==
    \E board \in BoardNames :
        /\ lim' = report_success(lim, board)
        /\ UNCHANGED <<moreVars, queue, queue_file, eng, clicks, time, lastAdd, limVars,
                       mat, extraVars>>

BackoffThrottled ==
    \E board \in BoardNames :
        /\ lim' = report_throttled(lim, board)
        /\ UNCHANGED <<moreVars, queue, queue_file, eng, clicks, time, lastAdd, limVars,
                       mat, extraVars>>

BackoffBlocked ==
    \E board \in BoardNames :
        /\ lim' = report_blocked(lim, board)
        /\ UNCHANGED <<moreVars, queue, queue_file, eng, clicks, time, lastAdd, limVars,
                       mat, extraVars>>

InitBackoff ==
    /\ queue = <<>>
    /\ queue_file = <<>>
    /\ eng = IdleEngine
    /\ clicks = {}
    /\ time = 0
    /\ lastAdd = NoAdd
    /\ lim = RateLimiter(0)
    /\ today = 0
    /\ thr = NoThreads
    /\ waits = NoWaits
    /\ mat = EmptyMaterials
    /\ ParkExtra
    /\ ParkMore

NextBackoff == BackoffSuccess \/ BackoffThrottled \/ BackoffBlocked

SpecBackoff == InitBackoff /\ [][NextBackoff]_vars

\* ------------------------------------------------------ DeduplicationEngine
MaxPostings == 3   \* postings in one deduplicate call

TITLE_THRESHOLD == 850     \* title_threshold=0.85, in 1/1000
COMPANY_THRESHOLD == 800   \* company_threshold=0.80, in 1/1000

\* normalize_title on the titles of the postings below
normalize_title(title) ==
    CASE title = "Data Engineer" -> "data engineer"
      [] title = "Senior Data Engineer" -> "data engineer"
      [] title = "Data Engineering" -> "data engineering"
      [] title = "Big Data Engineering" -> "big data engineering"
      [] title = "Account Manager" -> "account manager"
      [] title = "Software Engineer" -> "software engineer"
      [] OTHER -> ""

\* normalize_company on the companies of the postings below
normalize_company(company) ==
    CASE company = "Acme Inc" -> "acme"
      [] company = "Acme" -> "acme"
      [] company = "ACME Corp." -> "acme"
      [] company = "Acme Labs" -> "acme labs"
      [] company = "Globex" -> "globex"
      [] OTHER -> ""

\* normalize_url: netloc and path without trailing slash, lower case, no www.
normalize_url(url) ==
    CASE url = "https://www.acme.com/jobs/1/" -> "acme.com/jobs/1"
      [] url = "https://acme.com/jobs/1?ref=li" -> "acme.com/jobs/1"
      [] url = "https://boards.greenhouse.io/acme/jobs/1" -> "boards.greenhouse.io/acme/jobs/1"
      [] url = "https://globex.com/j/9" -> "globex.com/j/9"
      [] OTHER -> ""

\* SequenceMatcher(None, s1, s2).ratio() in 1/1000, on the normalized strings
SequenceMatcherRatio(s1, s2) ==
    CASE s1 = s2 -> 1000
      [] s1 = "data engineer" /\ s2 = "data engineering" -> 896
      [] s1 = "data engineering" /\ s2 = "data engineer" -> 896
      [] s1 = "account manager" /\ s2 = "data engineer" -> 357
      [] s1 = "data engineer" /\ s2 = "account manager" -> 500
      [] s1 = "account manager" /\ s2 = "data engineering" -> 322
      [] s1 = "data engineering" /\ s2 = "account manager" -> 451
      [] s1 = "big data engineering" /\ s2 = "data engineer" -> 787
      [] s1 = "data engineer" /\ s2 = "big data engineering" -> 787
      [] s1 = "big data engineering" /\ s2 = "data engineering" -> 888
      [] s1 = "data engineering" /\ s2 = "big data engineering" -> 888
      [] s1 = "big data engineering" /\ s2 = "account manager" -> 171
      [] s1 = "account manager" /\ s2 = "big data engineering" -> 285
      [] s1 = "acme" /\ s2 = "acme labs" -> 615
      [] s1 = "acme labs" /\ s2 = "acme" -> 615
      [] s1 = "acme" /\ s2 = "globex" -> 200
      [] s1 = "globex" /\ s2 = "acme" -> 200
      [] s1 = "acme labs" /\ s2 = "globex" -> 133
      [] s1 = "globex" /\ s2 = "acme labs" -> 266
      [] OTHER -> 0

fuzzy_match(s1, s2, threshold) ==
    IF s1 = "" \/ s2 = "" THEN FALSE ELSE SequenceMatcherRatio(s1, s2) >= threshold

\* RawJob.to_dict with the description held as its length; members is the set
\* of input positions merged into the record (bookkeeping, not a key of the dict)
Posting(title, company, url, board, desc, salary, easy) ==
    [ title |-> title, company |-> company, url |-> url, board_source |-> board,
      description |-> desc, salary_range |-> salary, posted_date |-> "",
      easy_apply |-> easy, ats_platform |-> "", job_type |-> "",
      raw_id |-> <<normalize_title(title), normalize_company(company), title, company>>,
      sources |-> {}, all_urls |-> {}, easy_apply_url |-> "", members |-> {} ]

PostingPool ==
    { Posting("Data Engineer", "Acme Inc", "https://www.acme.com/jobs/1/", "indeed", 0, "120k", FALSE),
      Posting("Senior Data Engineer", "Acme", "https://acme.com/jobs/1?ref=li", "linkedin", 300, "", FALSE),
      Posting("Data Engineering", "ACME Corp.", "", "glassdoor", 0, "", FALSE),
      Posting("Big Data Engineering", "Acme", "", "dice", 0, "", FALSE),
      Posting("Account Manager", "Globex", "https://globex.com/j/9", "indeed", 0, "", TRUE),
      Posting("Data Engineer", "Acme Labs", "https://boards.greenhouse.io/acme/jobs/1", "ziprecruiter", 0, "", FALSE) }

PostingLists == SeqsUpTo(PostingPool, MaxPostings)

\* richness_score, in 1/100 of a point
richness_score(j) ==
    (IF j.description > 0 THEN Min2(j.description, 5000) ELSE 0)
    + (IF j.salary_range # "" THEN 2000 ELSE 0)
    + (IF j.posted_date # "" THEN 1000 ELSE 0)
    + (IF j.easy_apply THEN 1500 ELSE 0)
    + (IF j.ats_platform # "" THEN 500 ELSE 0)
    + (IF j.job_type # "" THEN 500 ELSE 0)
    + (IF j.url # "" THEN 500 ELSE 0)

\* group.sort(key=richness_score, reverse=True): stable, richest first
RECURSIVE SortByRichness(_)
SortByRichness(group) ==
    IF group = <<>> THEN <<>>
    ELSE LET i == CHOOSE i \in DOMAIN group :
                    /\ \A k \in DOMAIN group :
                          richness_score(group[k]) <= richness_score(group[i])
                    /\ \A k \in 1..(i - 1) :
                          richness_score(group[k]) < richness_score(group[i])
             rest == [k \in 1..(Len(group) - 1) |->
                          IF k < i THEN group[k] ELSE group[k + 1]]
         IN <<group[i]>> \o SortByRichness(rest)

\* _merge_group, the loop over group[1:]: fill in what the best listing lacks
RECURSIVE Backfill(_, _)
Backfill(best, rest) ==
    IF rest = <<>> THEN best
    ELSE LET job == Head(rest)
             b1 == [best EXCEPT
                      !.description = IF @ = 0 /\ job.description > 0
                                      THEN job.description ELSE @,
                      !.salary_range = IF @ = "" /\ job.salary_range # ""
                                       THEN job.salary_range ELSE @,
                      !.posted_date = IF @ = "" /\ job.posted_date # ""
                                      THEN job.posted_date ELSE @,
                      !.ats_platform = IF @ = "" /\ job.ats_platform # ""
                                       THEN job.ats_platform ELSE @,
                      !.job_type = IF @ = "" /\ job.job_type # ""
                                   THEN job.job_type ELSE @]
             b2 == IF job.easy_apply
                   THEN [b1 EXCEPT !.easy_apply = TRUE,
                                   !.easy_apply_url = IF job.url # "" THEN job.url ELSE @]
                   ELSE b1
         IN Backfill(b2, Tail(rest))

\* DeduplicationEngine._merge_group
_merge_group(group) ==
    IF Len(group) = 1
    THEN [group[1] EXCEPT !.sources = {group[1].board_source}]
    ELSE LET sorted == SortByRichness(group)
             best == [sorted[1] EXCEPT
                        !.sources = {sorted[k].board_source : k \in DOMAIN sorted},
                        !.members = UNION {sorted[k].members : k \in DOMAIN sorted}]
             filled == Backfill(best, Tail(sorted))
         IN [filled EXCEPT
               !.all_urls = {sorted[k].url : k \in {n \in DOMAIN sorted : sorted[n].url # ""}}]

\* deduplicate, phase 1: the normalized urls in order of first appearance
RECURSIVE UrlKeys(_, _)
UrlKeys(jobs, acc) ==
    IF jobs = <<>> THEN acc
    ELSE LET u == normalize_url(Head(jobs).url)
         IN UrlKeys(Tail(jobs),
                    IF u = "" \/ u \in Range(acc) THEN acc ELSE Append(acc, u))

\* deduplicate, phase 2: the clusters of all_candidates from position i on
RECURSIVE Clusters(_, _, _, _)
Clusters(cands, i, used, acc) ==
    IF i > Len(cands) THEN acc
    ELSE IF i \in used THEN Clusters(cands, i + 1, used, acc)
    ELSE LET a == cands[i]
             hits == {j \in (i + 1)..Len(cands) :
                        /\ j \notin used
                        /\ fuzzy_match(normalize_title(a.title),
                                       normalize_title(cands[j].title), TITLE_THRESHOLD)
                        /\ fuzzy_match(normalize_company(a.company),
                                       normalize_company(cands[j].company),
                                       COMPANY_THRESHOLD)}
             order == SelectSeq([k \in 1..Len(cands) |-> k], LAMBDA k : k \in hits)
             cluster == <<a>> \o [k \in 1..Len(order) |-> cands[order[k]]]
             cross == Cardinality({j \in hits : cands[j].board_source # a.board_source})
         IN Clusters(cands, i + 1, used \cup {i} \cup hits,
                     [clusters |-> Append(acc.clusters, cluster),
                      cross_board_merges |-> acc.cross_board_merges + cross])

RECURSIVE SumSeq(_)
SumSeq(s) == IF s = <<>> THEN 0 ELSE Head(s) + SumSeq(Tail(s))

\* deduplicate, phase 1: one merged record per url group, then the postings
\* without url
UrlPhase(tagged, keys) ==
    [k \in DOMAIN keys |->
        _merge_group(SelectSeq(tagged, LAMBDA j : normalize_url(j.url) = keys[k]))]
    \o SelectSeq(tagged, LAMBDA j : normalize_url(j.url) = "")

\* deduplicate, the loop that merges each cluster
MergeClusters(clusters) ==
    [c \in DOMAIN clusters |->
        IF Len(clusters[c]) = 1
        THEN [clusters[c][1] EXCEPT !.sources = {clusters[c][1].board_source}]
        ELSE _merge_group(clusters[c])]

\* deduplicate, the value returned and the stats left in the engine
DedupOutcome(total_input, ph2) ==
    [ result |-> MergeClusters(ph2.clusters),
      stats |-> [total_input |-> total_input,
                 duplicates_found |->
                     SumSeq([c \in DOMAIN ph2.clusters |-> Len(ph2.clusters[c]) - 1]),
                 unique_output |-> Len(ph2.clusters),
                 cross_board_merges |-> ph2.cross_board_merges] ]

\* the postings, each remembering its position in the input
TagMembers(jobs) == [i \in DOMAIN jobs |-> [jobs[i] EXCEPT !.members = {i}]]

\* DeduplicationEngine.deduplicate: the returned list and the stats
deduplicate(jobs) ==
    IF jobs = <<>>
    THEN [result |-> <<>>,
          stats |-> [total_input |-> 0, duplicates_found |-> 0,
                     unique_output |-> 0, cross_board_merges |-> 0]]
    ELSE DedupOutcome(Len(jobs),
             Clusters(UrlPhase(TagMembers(jobs), UrlKeys(jobs, <<>>)), 1, {},
                      [clusters |-> <<>>, cross_board_merges |-> 0]))

\* deduplicate_jobs: a fresh engine with the default thresholds
deduplicate_jobs(jobs) == deduplicate(jobs).result

\* ---- deduplicate calls on lists of postings
Deduplicate ==
    \E jobs \in PostingLists :
        /\ dd' = [input |-> jobs] @@ deduplicate(jobs)
        /\ UNCHANGED <<moreVars, coreVars, fill, outcomes, analytics, schedVars>>

InitDedup ==
    /\ queue = <<>>
    /\ queue_file = <<>>
    /\ eng = IdleEngine
    /\ clicks = {}
    /\ time = 0
    /\ lastAdd = NoAdd
    /\ lim = RateLimiter(0)
    /\ today = 0
    /\ thr = NoThreads
    /\ waits = NoWaits
    /\ mat = EmptyMaterials
    /\ dd = [input |-> <<>>, result |-> <<>>, stats |-> deduplicate(<<>>).stats]
    /\ fill = NoFill
    /\ outcomes = <<>>
    /\ analytics = <<>>
    /\ minute = 0
    /\ last_run = <<>>
    /\ sch = NoSched
    /\ ParkMore

NextDedup == Deduplicate

SpecDedup == InitDedup /\ [][NextDedup]_vars

\* ---- recording outcomes of material pairings
MaxOutcomeCalls == 3   \* record_pairing_outcome calls in one behaviour
MaxPairings == 2       \* pairings created in one behaviour

TwoResumeMaterials ==
    [ resume_variants |->
          << Variant("rv_general", "general", TRUE, "resume_variants/tech.pdf"),
             Variant("rv_tech", "tech", TRUE, "resume_variants/tech.pdf") >>,
      cover_letter_variants |-> <<Variant("cv_general", "general", TRUE, "")>>,
      material_pairings |-> <<>> ]

NoOutcomes == [calls |-> 0, recorded |-> {}, repeat |-> FALSE,
               before |-> EmptyMaterials, after |-> EmptyMaterials,
               known |-> FALSE, ok |-> FALSE, saved |-> FALSE]

\* AnalyticsEngine._load without a data file
EmptyAnalytics ==
    [ daily_stats |-> <<>>, board_stats |-> <<>>, ats_stats |-> <<>>,
      outcome_tracking |-> <<>>,
      funnel |-> [ discovered |-> 0, queued |-> 0, applied |-> 0, screening |-> 0,
                   interview |-> 0, offer |-> 0, rejected |-> 0 ] ]

\* dict.setdefault(key, value) on a dict held as a function
setdefault(f, key, value) == IF key \in DOMAIN f THEN f ELSE (key :> value) @@ f

\* the entries record_discovery and record_application create on first use
NewDay == [discovered |-> 0, queued |-> 0, applied |-> 0, errors |-> 0]
NewBoard == [total_discovered |-> 0, total_applied |-> 0, interviews |-> 0, offers |-> 0]
NewATS == [attempts |-> 0, successes |-> 0, failures |-> 0]

PairingIds(m) == {m.material_pairings[i].id : i \in DOMAIN m.material_pairings}

OutcomeArgs == DOMAIN OUTCOME_WEIGHTS \cup {"hired"}

\* one record_pairing_outcome call as the log of calls sees it
LogOutcomeCall(o, m, pairing_id, outcome) ==
    LET r == record_pairing_outcome(m, pairing_id, outcome)
    IN [ calls |-> o.calls + 1,
         recorded |-> IF r.ok THEN o.recorded \cup {pairing_id} ELSE o.recorded,
         repeat |-> pairing_id \in o.recorded,
         before |-> m, after |-> r.mat,
         known |-> outcome \in DOMAIN OUTCOME_WEIGHTS /\ pairing_id \in PairingIds(m),
         ok |-> r.ok, saved |-> r.saved ]

\* AnalyticsEngine.record_outcome up to the MaterialManager call
record_outcome(a, job_id, outcome, pairing_id) ==
    [a EXCEPT !.outcome_tracking =
                  Append(@, [job_id |-> job_id, outcome |-> outcome,
                             material_pairing_id |-> pairing_id]),
              !.funnel = IF outcome \in DOMAIN a.funnel
                         THEN [@ EXCEPT ![outcome] = @ + 1] ELSE @]

\* an application records the materials it used
CreatePairing ==
    /\ Len(mat.material_pairings) < MaxPairings
    /\ \E job \in JobPool :
       \E sel \in select_best_materials(mat, detect_sector(job.title)) :
          LET app == <<time, Len(mat.material_pairings)>>
          IN mat' = create_material_pairing(mat, app, job.job_id, sel[1], sel[2], time).mat
    /\ UNCHANGED <<moreVars, queue, queue_file, eng, clicks, time, lastAdd, lim, limVars,
                   dd, fill, outcomes, analytics, schedVars>>

\* python material_manager.py record-outcome PAIRING_ID OUTCOME
RecordOutcome ==
    /\ outcomes.calls < MaxOutcomeCalls
    /\ \E pid \in PairingIds(mat) \cup {<<"pair", 9, <<9, 9>>>>}, outcome \in OutcomeArgs :
          /\ mat' = record_pairing_outcome(mat, pid, outcome).mat
          /\ outcomes' = LogOutcomeCall(outcomes, mat, pid, outcome)
    /\ UNCHANGED <<moreVars, queue, queue_file, eng, clicks, time, lastAdd, lim, limVars,
                   dd, fill, analytics, schedVars>>

\* python main.py materials --record-outcome PAIRING_ID OUTCOME: the manager
\* records the outcome, then AnalyticsEngine.record_outcome has a fresh
\* MaterialManager record it again
CmdRecordOutcome ==
    /\ outcomes.calls + 1 < MaxOutcomeCalls
    /\ \E pid \in PairingIds(mat) \cup {<<"pair", 9, <<9, 9>>>>}, outcome \in OutcomeArgs :
          LET r1 == record_pairing_outcome(mat, pid, outcome)
              o1 == LogOutcomeCall(outcomes, mat, pid, outcome)
          IN IF r1.ok
             THEN /\ mat' = record_pairing_outcome(r1.mat, pid, outcome).mat
                  /\ outcomes' = LogOutcomeCall(o1, r1.mat, pid, outcome)
                  /\ analytics' =
                        record_outcome(analytics,
                            r1.mat.material_pairings[get_pairing(r1.mat, pid)].job_id,
                            outcome, pid)
             ELSE /\ mat' = r1.mat
                  /\ outcomes' = o1
                  /\ UNCHANGED analytics
    /\ UNCHANGED <<moreVars, queue, queue_file, eng, clicks, time, lastAdd, lim, limVars,
                   dd, fill, schedVars>>

InitMat ==
    /\ queue = <<>>
    /\ queue_file = <<>>
    /\ eng = IdleEngine
    /\ clicks = {}
    /\ time = 0
    /\ lastAdd = NoAdd
    /\ lim = RateLimiter(0)
    /\ today = 0
    /\ thr = NoThreads
    /\ waits = NoWaits
    /\ mat \in {OneEachMaterials, TwoResumeMaterials}
    /\ dd = NoDedup
    /\ fill = NoFill
    /\ outcomes = NoOutcomes
    /\ analytics = EmptyAnalytics
    /\ minute = 0
    /\ last_run = <<>>
    /\ sch = NoSched
    /\ ParkMore

NextMat == CreatePairing \/ RecordOutcome \/ CmdRecordOutcome

SpecMat == InitMat /\ [][NextMat]_vars

\* ---- record-outcome calls on a document in which one application has
\* ---- recorded its materials
PairedMaterials ==
    { create_material_pairing(m, <<0, 0>>, job.job_id, sel[1], sel[2], 0).mat :
          m \in {OneEachMaterials, TwoResumeMaterials}, job \in JobPool,
          sel \in {<<"rv_general", "cv_general">>} }

InitOutcome ==
    /\ queue = <<>>
    /\ queue_file = <<>>
    /\ eng = IdleEngine
    /\ clicks = {}
    /\ time = 0
    /\ lastAdd = NoAdd
    /\ lim = RateLimiter(0)
    /\ today = 0
    /\ thr = NoThreads
    /\ waits = NoWaits
    /\ mat \in PairedMaterials
    /\ dd = NoDedup
    /\ fill = NoFill
    /\ outcomes = NoOutcomes
    /\ analytics = EmptyAnalytics
    /\ minute = 0
    /\ last_run = <<>>
    /\ sch = NoSched
    /\ ParkMore

NextOutcome == RecordOutcome

SpecOutcome == InitOutcome /\ [][NextOutcome]_vars

\* ---- fill_application on an application form
FillMaterials ==
    [ resume_variants |->
          << Variant("rv_tech", "tech", TRUE, "resume_variants/tech.pdf"),
             Variant("rv_outside", "tech", TRUE, "../outside/resume.pdf"),
             Variant("rv_nofile", "tech", TRUE, "") >>,
      cover_letter_variants |-> <<>>,
      material_pairings |-> <<>> ]

\* the forms fill_application meets: the fields it fills and the file inputs
FillPages ==
    [ fields : {<<>>, <<"email">>},
      file_inputs : { <<>>,
                      <<[label |-> "resume", fails |-> FALSE]>>,
                      <<[label |-> "resume", fails |-> TRUE]>>,
                      <<[label |-> "cover letter", fails |-> FALSE],
                        [label |-> "resume", fails |-> FALSE]>>,
                      <<[label |-> "resume", fails |-> TRUE],
                        [label |-> "resume", fails |-> FALSE]>> } ]

\* what _find_resume returned when the filler was built ("" for None), and
\* whether that file still exists
ResumeFiles == {[path |-> "", exists |-> FALSE],
                [path |-> "resume.pdf", exists |-> TRUE],
                [path |-> "resume.pdf", exists |-> FALSE]}

FillApplication ==
    \E page \in FillPages, dry_run \in BOOLEAN, rf \in ResumeFiles,
       rv \in {"", "rv_tech", "rv_outside", "rv_nofile", "rv_unknown"} :
        /\ fill' = [ page |-> page, dry_run |-> dry_run, resume_variant_id |-> rv,
                     resume_path |-> rf.path, exists |-> rf.exists,
                     raised |-> FALSE,
                     result |-> fill_application(page, dry_run, rv, mat,
                                                 rf.path, rf.exists) ]
        /\ UNCHANGED <<moreVars, coreVars, dd, outcomes, analytics, schedVars>>

InitFill ==
    /\ queue = <<>>
    /\ queue_file = <<>>
    /\ eng = IdleEngine
    /\ clicks = {}
    /\ time = 0
    /\ lastAdd = NoAdd
    /\ lim = RateLimiter(0)
    /\ today = 0
    /\ thr = NoThreads
    /\ waits = NoWaits
    /\ mat = FillMaterials
    /\ dd = NoDedup
    /\ fill = NoFill
    /\ outcomes = <<>>
    /\ analytics = EmptyAnalytics
    /\ minute = 0
    /\ last_run = <<>>
    /\ sch = NoSched
    /\ ParkMore

NextFill == FillApplication

SpecFill == InitFill /\ [][NextFill]_vars

\* ----------------------------------------------------------------- Scheduler
MaxMinute == 4   \* minutes the daemon is followed for
MaxRaw == 1      \* postings one discovery pass returns

WINDOW_BEFORE == 2      \* timedelta(minutes=2)
WINDOW_AFTER == 5       \* timedelta(minutes=5)
COOLDOWN_SECONDS == 300 \* 5 min cooldown
CHECK_INTERVAL == 60    \* run_daemon(check_interval=60)

Weekdays == {"mon", "tue", "wed", "thu", "fri"}

\* schedule_config.json: times are minutes of the day, mode "" stands for an
\* apply block without a "mode" key
Schedules ==
    [ discovery : [enabled : BOOLEAN, times : {<<3>>}, days : {Weekdays}],
      apply : [enabled : BOOLEAN, times : {<<3>>}, days : {Weekdays},
               max_per_run : {1}, mode : {"", "semi-auto", "full-auto"}] ]

\* Scheduler.should_run, the loop over the configured times from position i
RECURSIVE InWindowFrom(_, _, _, _, _)
InWindowFrom(times, i, task_name, nw, lr) ==
    IF i > Len(times) THEN FALSE
    ELSE LET t == times[i]
         IN IF t - WINDOW_BEFORE <= nw /\ nw <= t + WINDOW_AFTER
            THEN ~( /\ <<task_name, t>> \in DOMAIN lr
                    /\ (nw - lr[<<task_name, t>>]) * 60 < COOLDOWN_SECONDS )
            ELSE InWindowFrom(times, i + 1, task_name, nw, lr)

\* Scheduler.should_run(task_name) at minute nw of day current_day
should_run(schedule, task_name, nw, current_day, lr) ==
    LET task == schedule[task_name]
    IN /\ task.enabled
       /\ current_day \in task.days
       /\ InWindowFrom(task.times, 1, task_name, nw, lr)

\* self.last_run[f"{task}_{HH:MM of now}"] = now
StampLastRun(lr, task_name, nw) ==
    [k \in DOMAIN lr \cup {<<task_name, nw>>} |->
        IF k = <<task_name, nw>> THEN nw ELSE lr[k]]

\* the configured times of the task whose window holds minute nw
WindowsAt(schedule, task_name, nw) ==
    {schedule[task_name].times[i] : i \in
        {n \in DOMAIN schedule[task_name].times :
            /\ schedule[task_name].times[n] - WINDOW_BEFORE <= nw
            /\ nw <= schedule[task_name].times[n] + WINDOW_AFTER}}

\* ScoringEngine.score(job)["total"] for the titles of the model
ScoreTotal(title) ==
    CASE title = "Data Engineer" -> 85
      [] title = "Senior Data Engineer" -> 88
      [] title = "Data Engineering" -> 62
      [] OTHER -> 40

\* ScoringEngine._get_apply_type
_get_apply_type(strategy, score) ==
    IF strategy = "targeted"
    THEN IF score >= 85 THEN "full-prep"
         ELSE IF score >= 50 THEN "quick-apply" ELSE "skip"
    ELSE IF strategy = "wide-net"
    THEN IF score >= 80 THEN "full-prep"
         ELSE IF score >= 50 THEN "quick-apply" ELSE "skip"
    ELSE IF score >= 80 THEN "full-prep"
         ELSE IF score >= 60 THEN "quick-apply" ELSE "skip"

\* sorted(jobs, key=match, reverse=True): stable, best first
RECURSIVE SortByMatch(_)
SortByMatch(jobs) ==
    IF jobs = <<>> THEN <<>>
    ELSE LET i == CHOOSE i \in DOMAIN jobs :
                    /\ \A k \in DOMAIN jobs : jobs[k].match <= jobs[i].match
                    /\ \A k \in 1..(i - 1) : jobs[k].match < jobs[i].match
             rest == [k \in 1..(Len(jobs) - 1) |->
                          IF k < i THEN jobs[k] ELSE jobs[k + 1]]
         IN <<jobs[i]>> \o SortByMatch(rest)

\* score_jobs(deduped, config): batch_score adds match and apply_type; the
\* result is what add_jobs reads from each job
score_jobs(jobs) ==
    SortByMatch([i \in DOMAIN jobs |->
        [ job_id |-> jobs[i].raw_id, title |-> jobs[i].title,
          match |-> ScoreTotal(jobs[i].title),
          apply_type |-> _get_apply_type("balanced", ScoreTotal(jobs[i].title)),
          easy_apply |-> jobs[i].easy_apply, url |-> jobs[i].url ]])

RawLists == SeqsUpTo(PostingPool, MaxRaw)

\* AnalyticsEngine.record_discovery(board, count)
record_discovery(a, board, count) ==
    [a EXCEPT !.daily_stats =
                  [setdefault(@, today, NewDay) EXCEPT ![today].discovered = @ + count],
              !.board_stats =
                  [setdefault(@, board, NewBoard) EXCEPT
                       ![board].total_discovered = @ + count],
              !.funnel.discovered = @ + count]

\* run_once line 120: j.get("board_source", "") on RawJob objects; RawJob is
\* a dataclass without a get method, so the first element raises
BoardsOfRaw(raw_jobs) ==
    [ raised |-> raw_jobs # <<>>,
      boards |-> IF raw_jobs # <<>> THEN {}
                 ELSE {raw_jobs[i].board_source : i \in DOMAIN raw_jobs} ]

RECURSIVE RecordBoards(_, _, _)
RecordBoards(a, boards, raw_jobs) ==
    IF boards = {} THEN a
    ELSE LET b == CHOOSE b \in boards : TRUE
             count == Cardinality({i \in DOMAIN raw_jobs : raw_jobs[i].board_source = b})
         IN RecordBoards(record_discovery(a, b, count), boards \ {b}, raw_jobs)

NoDiscovery == [ran |-> FALSE, at |-> 0, raw |-> <<>>, scored |-> <<>>]

NoApplyCall == [called |-> FALSE, mode |-> "", dry_run |-> FALSE]

\* run_once lines 116-132 for the postings run_discovery returned: scored is
\* the scored list, boards the outcome of line 120, after the scheduler's
\* record once the block is over
DiscoveryPass(raw_jobs, scored, boards, after) ==
    /\ sch' = after
    /\ IF boards.raised
       THEN UNCHANGED <<analytics, queue, queue_file, last_run>>
       ELSE /\ analytics' = RecordBoards(analytics, boards.boards, raw_jobs)
            /\ queue' = add_jobs(_load(queue_file), scored, minute * 60).queue
            /\ queue_file' = queue'
            /\ last_run' = StampLastRun(last_run, "discovery", minute)

\* run_once lines 112-132: the discovery block, then on to the apply block
RunOnceDiscovery ==
    /\ sch.pc = "discovery"
    /\ IF should_run(sch.schedule, "discovery", minute, sch.current_day, last_run)
       THEN \E raw_jobs \in RawLists :
              DiscoveryPass(raw_jobs, score_jobs(deduplicate_jobs(raw_jobs)),
                  BoardsOfRaw(raw_jobs),
                  [sch EXCEPT
                     !.pc = "apply",
                     !.disc = [ran |-> TRUE, at |-> minute, raw |-> raw_jobs,
                               scored |-> score_jobs(deduplicate_jobs(raw_jobs))],
                     !.fired = @ \cup
                        {<<"discovery", t, minute>> :
                             t \in WindowsAt(sch.schedule, "discovery", minute)}])
       ELSE /\ sch' = [sch EXCEPT !.pc = "apply"]
            /\ UNCHANGED <<analytics, queue, queue_file, last_run>>
    /\ UNCHANGED <<moreVars, eng, clicks, time, lastAdd, lim, limVars, mat, dd, fill, outcomes,
                   minute>>

\* run_once lines 135-144: the apply block up to the process_queue call
RunOnceApply ==
    /\ sch.pc = "apply"
    /\ IF should_run(sch.schedule, "apply", minute, sch.current_day, last_run)
       THEN \E hp \in BOOLEAN :
              LET apply_config == sch.schedule.apply
                  mode == IF apply_config.mode = "" THEN "semi-auto"
                          ELSE apply_config.mode
                  dry_run == apply_config.mode = "semi-auto"
              IN /\ queue' = _load(queue_file)
                 /\ eng' = StartEngine(_load(queue_file), mode, dry_run,
                                       apply_config.max_per_run, hp, "scheduler", 0)
                 /\ clicks' = {}
                 /\ sch' = [sch EXCEPT
                              !.pc = "applying",
                              !.apply = [called |-> TRUE, mode |-> mode,
                                         dry_run |-> dry_run],
                              !.fired = @ \cup
                                 {<<"apply", t, minute>> :
                                      t \in WindowsAt(sch.schedule, "apply", minute)}]
       ELSE /\ sch' = [sch EXCEPT !.pc = "sleep"]
            /\ UNCHANGED <<queue, eng, clicks>>
    /\ UNCHANGED <<moreVars, queue_file, time, lastAdd, lim, limVars, mat, dd, fill, outcomes,
                   analytics, minute, last_run>>

\* the for loop of the process_queue call the scheduler made
SchedProcessRecord ==
    /\ sch.pc = "applying"
    /\ ProcessRecordOn(SchedPages)

SchedProcessFinish ==
    /\ sch.pc = "applying"
    /\ ProcessQueueFinish

\* run_once lines 145-151: process_queue has returned
RunOnceApplyDone ==
    /\ sch.pc = "applying"
    /\ eng.pc = "returned"
    /\ last_run' = StampLastRun(last_run, "apply", minute)
    /\ sch' = [sch EXCEPT !.pc = "sleep"]
    /\ eng' = IdleEngine
    /\ UNCHANGED <<moreVars, coreVarsButEng, dd, fill, outcomes, analytics, minute>>

\* run_daemon: asyncio.sleep(check_interval), then the next run_once
DaemonSleep ==
    /\ sch.pc = "sleep"
    /\ minute < MaxMinute
    /\ minute' = minute + CHECK_INTERVAL \div 60
    /\ sch' = [sch EXCEPT !.pc = "discovery"]
    /\ UNCHANGED <<moreVars, coreVars, dd, fill, outcomes, analytics, last_run>>

InitSched ==
    /\ queue_file \in {<<>>} \cup {add_jobs(<<>>, <<j>>, 0).queue : j \in JobPool}
    /\ queue = queue_file
    /\ eng = IdleEngine
    /\ clicks = {}
    /\ time = 0
    /\ lastAdd = NoAdd
    /\ lim = RateLimiter(0)
    /\ today = 0
    /\ thr = NoThreads
    /\ waits = NoWaits
    /\ mat = EmptyMaterials
    /\ dd = NoDedup
    /\ fill = NoFill
    /\ outcomes = <<>>
    /\ analytics = EmptyAnalytics
    /\ minute = 0
    /\ last_run = <<>>
    /\ ParkMore
    /\ \E s \in Schedules, day \in {"mon", "sat"} :
          sch = [ pc |-> "discovery", schedule |-> s, current_day |-> day,
                  disc |-> NoDiscovery, apply |-> NoApplyCall, fired |-> {} ]

NextSched ==
    \/ RunOnceDiscovery \/ RunOnceApply \/ SchedProcessRecord
    \/ SchedProcessFinish \/ RunOnceApplyDone \/ DaemonSleep

SpecSched == InitSched /\ [][NextSched]_vars

\* ------------------------------------------------------------ ScoringEngine
MaxRawTotal == 101   \* the largest sum of the breakdown a call is given

\* automation.strategy as configured; any other value is treated as balanced
Strategies == {"wide-net", "balanced", "targeted", "aggressive"}

\* ScoringEngine._meets_threshold
_meets_threshold(strategy, score) ==
    score >= (CASE strategy = "wide-net" -> 50
                [] strategy = "balanced" -> 60
                [] strategy = "targeted" -> 85
                [] OTHER -> 60)

\* ScoringEngine.score, from the sum of the breakdown on
score(strategy, raw_total) ==
    [ strategy |-> strategy,
      total |-> Max2(0, Min2(100, raw_total)),
      meets_threshold |-> _meets_threshold(strategy, Max2(0, Min2(100, raw_total))),
      apply_type |-> _get_apply_type(strategy, Max2(0, Min2(100, raw_total))) ]

\* ---- one score call on an engine with some strategy
Score ==
    \E strategy \in Strategies, raw_total \in (0 - 1)..MaxRawTotal :
        /\ scoring' = score(strategy, raw_total)
        /\ UNCHANGED <<coreVars, extraVars, disco, ai, persist, qa, calls>>

InitScore ==
    /\ queue = <<>>
    /\ queue_file = <<>>
    /\ eng = IdleEngine
    /\ clicks = {}
    /\ time = 0
    /\ lastAdd = NoAdd
    /\ lim = RateLimiter(0)
    /\ today = 0
    /\ thr = NoThreads
    /\ waits = NoWaits
    /\ mat = EmptyMaterials
    /\ ParkExtra
    /\ scoring = NoScoring
    /\ disco = NoDisco
    /\ ai = NoAI
    /\ persist = NoPersist
    /\ qa = NoQA
    /\ calls = NoCalls

NextScore == Score

SpecScore == InitScore /\ [][NextScore]_vars

\* ---------------------------------------------------------- DiscoveryEngine
MaxPages == 2      \* BoardScraper.max_pages of the run
MaxCombos == 2     \* keyword and location combinations tried per board
MaxPerBoard == 4   \* max_per_board of the run

\* config.get_enabled_boards(): the boards with a scraper class, in order
EnabledBoardLists == {<<"indeed", "linkedin">>, <<"linkedin", "indeed">>, <<"indeed">>}

\* what loading one results page can do; no_next is a missing or hidden
\* next-page control, which ends the scrape before any request is made
PageOutcomes(page_num) ==
    {"jobs", "empty", "timeout", "captcha", "error"}
    \cup (IF page_num > 0 THEN {"no_next"} ELSE {})

\* DiscoveryEngine.discover: the loops move on to the next combination of
\* keyword and location, then to the next board, then to the end of the run
NextScrape(d, found) ==
    LET d1 == [d EXCEPT !.page_num = 0, !.jobs = 0, !.all_jobs = @ + found]
    IN IF d.combo < MaxCombos THEN [d1 EXCEPT !.combo = @ + 1]
       ELSE IF d.board < Len(d.boards) THEN [d1 EXCEPT !.board = @ + 1, !.combo = 1]
       ELSE [d1 EXCEPT !.pc = "save"]

\* BoardScraper.scrape, the limiter report that follows the page's outcome
ReportPage(l, board, outcome) ==
    CASE outcome = "jobs" -> report_success(l, board)
      [] outcome = "captcha" -> report_blocked(l, board)
      [] outcome \in {"timeout", "error"} -> report_throttled(l, board)
      [] OTHER -> l

\* BoardScraper.scrape, one pass of the page loop after wait() has returned
ScrapeStep(d, l, board, outcome) ==
    [ lim |-> ReportPage(l, board, outcome),
      disco |->
          LET seen == [d EXCEPT
                         !.requested = IF outcome = "no_next" THEN @ ELSE @ \cup {board},
                         !.late = IF outcome # "no_next" /\ board \in d.blocked
                                  THEN @ \cup {board} ELSE @,
                         !.blocked = IF outcome = "captcha" THEN @ \cup {board} ELSE @]
          IN IF outcome = "jobs"
             THEN [seen EXCEPT !.jobs = @ + 1, !.page_num = @ + 1]
             ELSE NextScrape(seen, Min2(d.jobs, MaxPerBoard \div MaxCombos)) ]

\* ---- DiscoveryEngine.discover
Discover ==
    /\ disco.pc = "idle"
    /\ \E boards \in EnabledBoardLists :
          disco' = [disco EXCEPT !.pc = "scrape", !.boards = boards]
    /\ UNCHANGED <<coreVars, extraVars, scoring, ai, persist, qa, calls>>

\* BoardScraper.scrape: one pass of the page loop, and the return to discover
\* when the loop ends
ScrapePage ==
    /\ disco.pc = "scrape"
    /\ LET board == disco.boards[disco.board]
           cr == can_request(lim, board, today)
       IN IF \/ disco.page_num >= MaxPages
             \/ disco.jobs >= MaxPerBoard \div MaxCombos
          THEN /\ disco' = NextScrape(disco, Min2(disco.jobs, MaxPerBoard \div MaxCombos))
               /\ UNCHANGED <<lim, time>>
          ELSE IF ~cr.ret
          THEN /\ disco' = NextScrape(disco, Min2(disco.jobs, MaxPerBoard \div MaxCombos))
               /\ lim' = cr.lim
               /\ UNCHANGED time
          ELSE \E base \in MinDelay..MaxDelay, outcome \in PageOutcomes(disco.page_num) :
                  LET w == wait_reserve(cr.lim, board, base, time, today)
                      step == ScrapeStep(disco,
                                         wait_stamp(w.lim, board, time + w.wait_time),
                                         board, outcome)
                  IN /\ time' = time + w.wait_time
                     /\ lim' = step.lim
                     /\ disco' = step.disco
    /\ UNCHANGED <<queue, queue_file, eng, clicks, lastAdd, limVars, mat, extraVars,
                   scoring, ai, persist, qa, calls>>

\* DiscoveryEngine.discover: the raw results are saved and returned
DiscoverFinish ==
    /\ disco.pc = "save"
    /\ disco' = [disco EXCEPT !.pc = "done"]
    /\ UNCHANGED <<coreVars, extraVars, scoring, ai, persist, qa, calls>>

InitDisco ==
    /\ queue = <<>>
    /\ queue_file = <<>>
    /\ eng = IdleEngine
    /\ clicks = {}
    /\ time = 0
    /\ lastAdd = NoAdd
    /\ lim = RateLimiter(0)
    /\ today = 0
    /\ thr = NoThreads
    /\ waits = NoWaits
    /\ mat = EmptyMaterials
    /\ ParkExtra
    /\ scoring = NoScoring
    /\ disco = [ pc |-> "idle", boards |-> <<>>, board |-> 1, combo |-> 1,
                 page_num |-> 0, jobs |-> 0, all_jobs |-> 0,
                 requested |-> {}, blocked |-> {}, late |-> {} ]
    /\ ai = NoAI
    /\ persist = NoPersist
    /\ qa = NoQA
    /\ calls = NoCalls

NextDisco == Discover \/ ScrapePage \/ DiscoverFinish

SpecDisco == InitDisco /\ [][NextDisco]_vars

\* ----------------------------------------------------------------- AIEngine
MaxAICalls == 3    \* _call invocations in one run

Prompts == {"p1", "p2"}

\* what the surroundings do during one _call: whether the openai package can
\* be imported and its client constructed, what the completion request does,
\* and whether the cache file can be written
CallEnvs ==
    [ openai : {"ok", "missing", "broken"},
      api : {"ok", "network_error", "gateway_error"},
      disk : {"ok", "full"} ]

NoCall ==
    [ prompt |-> "", env |-> <<>>, ret |-> "", raised |-> "",
      memory_before |-> {}, usage_before |-> 0 ]

\* AIEngine.__init__: enabled is ai.enabled and a non-empty api key
AIEngine(enabled) ==
    [ enabled |-> enabled, client |-> FALSE, memory |-> {}, total_calls |-> 0,
      calls |-> 0, last |-> NoCall ]

\* AIEngine._get_client: the engine after the call and what was raised
_get_client(a, env) ==
    IF a.client THEN [ai |-> a, raised |-> ""]
    ELSE IF env.openai = "missing" THEN [ai |-> a, raised |-> "RuntimeError"]
    ELSE IF env.openai = "broken" THEN [ai |-> a, raised |-> "OpenAIError"]
    ELSE [ai |-> [a EXCEPT !.client = TRUE], raised |-> ""]

\* AIEngine._call from the completion request on, inside the try block
Complete(a, prompt, env) ==
    IF env.api # "ok" THEN [ai |-> a, ret |-> "absent"]
    ELSE LET tracked == [a EXCEPT !.total_calls = @ + 1]
             cached == [tracked EXCEPT !.memory = @ \cup {prompt}]
         IN IF env.disk = "full"
            THEN [ai |-> cached, ret |-> "absent"]
            ELSE [ai |-> cached, ret |-> "text"]

\* AIEngine._call: the engine after the call, the value returned and the
\* exception that reached the caller, if any
_call(a, prompt, env) ==
    IF ~a.enabled THEN [ai |-> a, ret |-> "absent", raised |-> ""]
    ELSE IF prompt \in a.memory THEN [ai |-> a, ret |-> "cached", raised |-> ""]
    ELSE IF _get_client(a, env).raised # ""
    THEN [ai |-> a, ret |-> "", raised |-> _get_client(a, env).raised]
    ELSE [ai |-> Complete(_get_client(a, env).ai, prompt, env).ai,
          ret |-> Complete(_get_client(a, env).ai, prompt, env).ret,
          raised |-> ""]

\* ---- one generation call (generate_cover_letter and the like)
Generate ==
    /\ ai.calls < MaxAICalls
    /\ \E prompt \in Prompts, env \in CallEnvs :
          ai' = [_call(ai, prompt, env).ai EXCEPT
                    !.calls = @ + 1,
                    !.last = [ prompt |-> prompt, env |-> env,
                               ret |-> _call(ai, prompt, env).ret,
                               raised |-> _call(ai, prompt, env).raised,
                               memory_before |-> ai.memory,
                               usage_before |-> ai.total_calls ]]
    /\ UNCHANGED <<coreVars, extraVars, scoring, disco, persist, qa, calls>>

InitAI ==
    /\ queue = <<>>
    /\ queue_file = <<>>
    /\ eng = IdleEngine
    /\ clicks = {}
    /\ time = 0
    /\ lastAdd = NoAdd
    /\ lim = RateLimiter(0)
    /\ today = 0
    /\ thr = NoThreads
    /\ waits = NoWaits
    /\ mat = EmptyMaterials
    /\ ParkExtra
    /\ scoring = NoScoring
    /\ disco = NoDisco
    /\ ai \in {AIEngine(e) : e \in BOOLEAN}
    /\ persist = NoPersist
    /\ qa = NoQA
    /\ calls = NoCalls

NextAI == Generate

SpecAI == InitAI /\ [][NextAI]_vars

\* ------------------------------------------------------------ ResponseCache
CacheTTL == 2        \* ai.cache_ttl_hours, in hours of the model's clock
MaxCacheClock == 4   \* the hours one run lasts
MaxLookups == 3      \* _call invocations in one run

\* the ids in MODELS and the prompts of the model, as sequences of pieces
ModelIds == {<<"anthropic/claude-sonnet-4">>, <<"anthropic/claude-opus-4">>}
CachePrompts == {<<"p1">>, <<"p2">>}
Responses == {"r1", "r2"}

\* ResponseCache._key: the digest of f"{model}:{prompt}", one per text
_key(prompt, model) == model \o <<":">> \o prompt

\* ResponseCache.get with a hit also when the entry is exactly ttl old
cache_get_inclusive(c, prompt, model, now) ==
    LET key == _key(prompt, model)
    IN IF key \in DOMAIN c.memory /\ now - c.memory[key].ts <= CacheTTL
       THEN [cache |-> c, ret |-> c.memory[key].response, source |-> "memory"]
       ELSE IF key \in DOMAIN c.disk /\ now - c.disk[key].ts <= CacheTTL
       THEN [ cache |-> [c EXCEPT !.memory =
                            (key :> [response |-> c.disk[key].response,
                                     ts |-> c.disk[key].ts]) @@ @],
              ret |-> c.disk[key].response, source |-> "disk" ]
       ELSE [cache |-> c, ret |-> "None", source |-> "none"]

\* ResponseCache.get at clock reading now: the cache after the lookup, the
\* value returned and where it was found; the timestamp of a cache file is
\* the isoformat text of the datetime set() stored, which fromisoformat
\* reads back unchanged
cache_get(c, prompt, model, now) ==
    LET key == _key(prompt, model)
    IN IF key \in DOMAIN c.memory /\ now - c.memory[key].ts < CacheTTL
       THEN [cache |-> c, ret |-> c.memory[key].response, source |-> "memory"]
       ELSE IF key \in DOMAIN c.disk /\ now - c.disk[key].ts < CacheTTL
       THEN [ cache |-> [c EXCEPT !.memory =
                            (key :> [response |-> c.disk[key].response,
                                     ts |-> c.disk[key].ts]) @@ @],
              ret |-> c.disk[key].response, source |-> "disk" ]
       ELSE [cache |-> c, ret |-> "None", source |-> "none"]

\* ResponseCache.set at clock reading now
cache_set(c, prompt, model, response, now) ==
    LET key == _key(prompt, model)
    IN [c EXCEPT !.memory = (key :> [response |-> response, ts |-> now]) @@ @,
                 !.disk = (key :> [response |-> response, ts |-> now, model |-> model])
                              @@ @]

NoLookup == [ model |-> <<>>, prompt |-> <<>>, at |-> 0, ret |-> "None",
              source |-> "none", live |-> FALSE ]

\* ResponseCache.__init__ on a cache directory with the files in disk; cached
\* remembers, for each (model, prompt), the response set() was last given
\* and when
ResponseCache(disk, cached) ==
    [memory |-> <<>>, disk |-> disk, cached |-> cached, lookups |-> 0, last |-> NoLookup]

\* ---- AIEngine._call on an enabled engine: the lookup, and on a miss the
\* ---- completion request, whose response is cached unless the request fails
CachedCall ==
    /\ ai.lookups < MaxLookups
    /\ \E model \in ModelIds, prompt \in CachePrompts, live \in Responses \cup {"None"} :
          LET got == cache_get(ai, prompt, model, time)
              hit == got.ret # "None"
              after == IF hit \/ live = "None" THEN got.cache
                       ELSE cache_set(got.cache, prompt, model, live, time)
          IN ai' = [after EXCEPT
                      !.lookups = @ + 1,
                      !.cached = IF hit \/ live = "None" THEN @
                                 ELSE (<<model, prompt>> :>
                                          [response |-> live, ts |-> time]) @@ @,
                      !.last = [ model |-> model, prompt |-> prompt, at |-> time,
                                 ret |-> got.ret, source |-> got.source,
                                 live |-> ~hit ]]
    /\ UNCHANGED <<queue, queue_file, eng, clicks, time, lastAdd, lim, limVars, mat,
                   extraVars, scoring, disco, persist, qa, calls>>

\* the process ends and a new one constructs its AIEngine on the same directory
NewProcess ==
    /\ ai.memory # <<>>
    /\ ai' = [ai EXCEPT !.memory = <<>>, !.last = NoLookup]
    /\ UNCHANGED <<coreVars, extraVars, scoring, disco, persist, qa, calls>>

\* an hour passes
CacheClock ==
    /\ time < MaxCacheClock
    /\ time' = time + 1
    /\ UNCHANGED <<queue, queue_file, eng, clicks, lastAdd, lim, limVars, mat,
                   extraVars, moreVars>>

InitCache ==
    /\ queue = <<>>
    /\ queue_file = <<>>
    /\ eng = IdleEngine
    /\ clicks = {}
    /\ time = 0
    /\ lastAdd = NoAdd
    /\ lim = RateLimiter(0)
    /\ today = 0
    /\ thr = NoThreads
    /\ waits = NoWaits
    /\ mat = EmptyMaterials
    /\ ParkExtra
    /\ scoring = NoScoring
    /\ disco = NoDisco
    /\ ai = ResponseCache(<<>>, <<>>)
    /\ persist = NoPersist
    /\ qa = NoQA
    /\ calls = NoCalls

NextCache == CachedCall \/ NewProcess \/ CacheClock

SpecCache == InitCache /\ [][NextCache]_vars

\* ------------------------------------------- ApplicationQueue.save and crashes
MaxCrashes == 2    \* process crashes in one run

\* ApplicationQueue._load on a file that may hold only the first part of the
\* JSON text: json.load fails on it and the queue starts empty
LoadFile(records, complete) == IF complete THEN _load(records) ELSE <<>>

\* the process is up with the document closed on disk
Settled(loaded) ==
    [ pc |-> "idle", complete |-> TRUE, previous |-> <<>>, loaded |-> loaded,
      crashes |-> 0, crashed_in_save |-> FALSE, lost |-> FALSE ]

\* ---- add_jobs: the records are appended in memory, then save() opens the
\* file for writing, which empties it
SaveOpen ==
    /\ persist.pc = "idle"
    /\ \E job \in JobPool :
          queue' = add_jobs(queue, <<job>>, time).queue
    /\ queue_file' = <<>>
    /\ persist' = [persist EXCEPT !.pc = "writing", !.complete = FALSE,
                                  !.previous = queue_file]
    /\ UNCHANGED <<eng, clicks, time, lastAdd, lim, limVars, mat, extraVars,
                   scoring, disco, ai, qa, calls>>

\* json.dump writes the text of the next record to the file
SaveWrite ==
    /\ persist.pc = "writing"
    /\ Len(queue_file) < Len(queue)
    /\ queue_file' = Append(queue_file, queue[Len(queue_file) + 1])
    /\ UNCHANGED <<queue, eng, clicks, time, lastAdd, lim, limVars, mat, extraVars,
                   scoring, disco, ai, persist, qa, calls>>

\* json.dump writes the closing bracket and the with block closes the file
SaveClose ==
    /\ persist.pc = "writing"
    /\ Len(queue_file) = Len(queue)
    /\ persist' = [persist EXCEPT !.pc = "idle", !.complete = TRUE]
    /\ UNCHANGED <<coreVars, extraVars, scoring, disco, ai, qa, calls>>

\* the process dies; the memory is gone, the file stays as it is
Crash ==
    /\ persist.pc \in {"idle", "writing"}
    /\ persist.crashes < MaxCrashes
    /\ queue' = <<>>
    /\ persist' = [persist EXCEPT !.pc = "down", !.crashes = @ + 1,
                                  !.crashed_in_save = (persist.pc = "writing"),
                                  !.previous = IF persist.pc = "writing"
                                               THEN @ ELSE queue_file]
    /\ UNCHANGED <<queue_file, eng, clicks, time, lastAdd, lim, limVars, mat,
                   extraVars, scoring, disco, ai, qa, calls>>

\* a new process constructs ApplicationQueue, which loads the file
Restart ==
    /\ persist.pc = "down"
    /\ queue' = LoadFile(queue_file, persist.complete)
    /\ persist' = [persist EXCEPT
                      !.pc = "idle", !.loaded = TRUE,
                      !.lost = \E i \in DOMAIN persist.previous :
                                  \A k \in DOMAIN LoadFile(queue_file, persist.complete) :
                                      LoadFile(queue_file, persist.complete)[k].job_id
                                          # persist.previous[i].job_id]
    /\ UNCHANGED <<queue_file, eng, clicks, time, lastAdd, lim, limVars, mat,
                   extraVars, scoring, disco, ai, qa, calls>>

InitPersist ==
    /\ queue_file \in QueuesOnDisk
    /\ queue = _load(queue_file)
    /\ eng = IdleEngine
    /\ clicks = {}
    /\ time = 0
    /\ lastAdd = NoAdd
    /\ lim = RateLimiter(0)
    /\ today = 0
    /\ thr = NoThreads
    /\ waits = NoWaits
    /\ mat = EmptyMaterials
    /\ ParkExtra
    /\ scoring = NoScoring
    /\ disco = NoDisco
    /\ ai = NoAI
    /\ persist = Settled(FALSE)
    /\ qa = NoQA
    /\ calls = NoCalls

NextPersist == SaveOpen \/ SaveWrite \/ SaveClose \/ Crash \/ Restart

SpecPersist == InitPersist /\ [][NextPersist]_vars

\* ------------------------------------------------------------------- QABank
MaxEntries == 2    \* entries added to the bank in one run

\* str.lower() on the texts of the model
lower(text) ==
    CASE text = "Why do you want to work here?" -> "why do you want to work here?"
      [] text = "Salary expectations" -> "salary expectations"
      [] text = "Salary expectations:" -> "salary expectations:"
      [] text = "Desired salary" -> "desired salary"
      [] text = "Desired salary range?" -> "desired salary range?"
      [] OTHER -> text

\* re.sub(r'[*:?\s]+$', '', text.strip()) on lower-case text
StripTrailing(text) ==
    CASE text = "why do you want to work here?" -> "why do you want to work here"
      [] text = "salary expectations:" -> "salary expectations"
      [] text = "desired salary range?" -> "desired salary range"
      [] OTHER -> text

\* set(text.split())
Words(text) ==
    CASE text = "why do you want to work here?" ->
             {"why", "do", "you", "want", "to", "work", "here?"}
      [] text = "why do you want to work here" ->
             {"why", "do", "you", "want", "to", "work", "here"}
      [] text = "salary expectations" -> {"salary", "expectations"}
      [] text = "salary expectations:" -> {"salary", "expectations:"}
      [] text = "desired salary" -> {"desired", "salary"}
      [] text = "desired salary range" -> {"desired", "salary", "range"}
      [] text = "desired salary range?" -> {"desired", "salary", "range?"}
      [] OTHER -> {}

\* len(text)
StrLen(text) ==
    CASE text = "why do you want to work here?" -> 29
      [] text = "why do you want to work here" -> 28
      [] text = "salary expectations" -> 19
      [] text = "salary expectations:" -> 20
      [] text = "desired salary" -> 14
      [] text = "desired salary range" -> 20
      [] text = "desired salary range?" -> 21
      [] text = "Desired salary" -> 14
      [] OTHER -> 0

\* a in b, for the lower-case texts of the model
IsSubstring(a, b) ==
    \/ a = b
    \/ a = "desired salary" /\ b \in {"desired salary range", "desired salary range?"}
    \/ a = "desired salary range" /\ b = "desired salary range?"
    \/ a = "why do you want to work here" /\ b = "why do you want to work here?"
    \/ a = "salary expectations" /\ b = "salary expectations:"

\* the entries a user may add: question and aliases
QAPool ==
    { [question |-> "Why do you want to work here?", aliases |-> <<>>],
      [question |-> "why do you want to work here", aliases |-> <<>>],
      [question |-> "Salary expectations", aliases |-> <<"Desired salary">>] }

\* the question texts met on application forms
FormQuestions ==
    { "Why do you want to work here?", "why do you want to work here",
      "Salary expectations:", "Desired salary range?", "Desired salary" }

NoAnswer == [question |-> "", found |-> FALSE, source |-> 0, confidence |-> 0]

\* get_answer, the loop over the aliases of one entry; scores in 1/1000
RECURSIVE AliasLoop(_, _, _, _)
AliasLoop(aliases, q_lower, e, best) ==
    IF aliases = <<>> THEN best
    ELSE AliasLoop(Tail(aliases), q_lower, e,
             IF /\ \/ IsSubstring(lower(Head(aliases)), q_lower)
                   \/ IsSubstring(q_lower, lower(Head(aliases)))
                /\ (StrLen(Head(aliases)) * 1000) \div Max2(StrLen(q_lower), 1) > best.score
             THEN [match |-> e,
                   score |-> Min2((StrLen(Head(aliases)) * 1000)
                                      \div Max2(StrLen(q_lower), 1), 950)]
             ELSE best)

\* get_answer, the fuzzy keyword match of one entry
FuzzyStep(question, q_lower, e, best) ==
    IF /\ Cardinality(Words(lower(question)) \cap Words(q_lower)) >= 3
       /\ (Cardinality(Words(lower(question)) \cap Words(q_lower)) * 1000)
              \div Max2(Cardinality(Words(lower(question)) \cup Words(q_lower)), 1)
          > best.score
    THEN [match |-> e,
          score |-> (((Cardinality(Words(lower(question)) \cap Words(q_lower)) * 1000)
                        \div Max2(Cardinality(Words(lower(question))
                                                 \cup Words(q_lower)), 1)) * 8) \div 10]
    ELSE best

\* get_answer, the loop over the entries from position e on
RECURSIVE EntryLoop(_, _, _, _)
EntryLoop(entries, e, q_lower, best) ==
    IF e > Len(entries) THEN best
    ELSE IF q_lower = lower(entries[e].question)
    THEN [match |-> e, score |-> 1000]
    ELSE EntryLoop(entries, e + 1, q_lower,
             FuzzyStep(entries[e].question, q_lower, e,
                       AliasLoop(entries[e].aliases, q_lower, e, best)))

\* the value get_answer returns for the best entry found
AnswerOf(question_text, best) ==
    IF best.match # 0 /\ best.score >= 300
    THEN [question |-> question_text, found |-> TRUE, source |-> best.match,
          confidence |-> best.score]
    ELSE [question |-> question_text, found |-> FALSE, source |-> 0, confidence |-> 0]

\* QABank.get_answer(question_text)
get_answer(entries, question_text) ==
    AnswerOf(question_text,
             EntryLoop(entries, 1, StripTrailing(lower(question_text)),
                       [match |-> 0, score |-> 0]))

\* ---- QABank.add_entry
AddEntry ==
    /\ Len(qa.entries) < MaxEntries
    /\ \E entry \in QAPool : qa' = [qa EXCEPT !.entries = Append(@, entry)]
    /\ UNCHANGED <<coreVars, extraVars, scoring, disco, ai, persist, calls>>

\* ---- QABank.get_answer on a question of a form
GetAnswer ==
    /\ \E question_text \in FormQuestions :
          qa' = [qa EXCEPT !.last = get_answer(qa.entries, question_text)]
    /\ UNCHANGED <<coreVars, extraVars, scoring, disco, ai, persist, calls>>

InitQA ==
    /\ queue = <<>>
    /\ queue_file = <<>>
    /\ eng = IdleEngine
    /\ clicks = {}
    /\ time = 0
    /\ lastAdd = NoAdd
    /\ lim = RateLimiter(0)
    /\ today = 0
    /\ thr = NoThreads
    /\ waits = NoWaits
    /\ mat = EmptyMaterials
    /\ ParkExtra
    /\ scoring = NoScoring
    /\ disco = NoDisco
    /\ ai = NoAI
    /\ persist = NoPersist
    /\ qa = [entries |-> <<>>, last |-> NoAnswer]
    /\ calls = NoCalls

NextQA == AddEntry \/ GetAnswer

SpecQA == InitQA /\ [][NextQA]_vars

\* ---------------------------------------- ScoringEngine: the breakdown
\* int(n / d): the quotient truncated toward zero
TruncDiv(n, d) ==
    LET an == IF n < 0 THEN 0 - n ELSE n
        ad == IF d < 0 THEN 0 - d ELSE d
    IN IF (n < 0) = (d < 0) THEN an \div ad ELSE 0 - (an \div ad)

\* the sum of f over the keys in S
SumOver(f, S) ==
    LET RECURSIVE Sum(_)
        Sum(T) == IF T = {} THEN 0
                  ELSE LET k == CHOOSE k \in T : TRUE IN f[k] + Sum(T \ {k})
    IN Sum(S)

\* the largest of f over the keys in S, starting from 0
MaxOver(f, S) ==
    LET RECURSIVE Mx(_)
        Mx(T) == IF T = {} THEN 0
                 ELSE LET k == CHOOSE k \in T : TRUE IN Max2(f[k], Mx(T \ {k}))
    IN Mx(S)

\* target_roles of _score_title (three of its entries)
target_roles ==
    ("product manager" :> 20) @@ ("program manager" :> 15) @@ ("quality assurance" :> 8)

\* ScoringEngine(None): the built-in weights, no watchlist, nothing learned;
\* keyword_weights holds the three value classes as one dict
DefaultEngine ==
    [ config |-> FALSE,
      keyword_weights |-> ("product manager" :> 4) @@ ("platform" :> 2) @@ ("sql" :> 1),
      seniority_boosts |-> ("lead" :> 10) @@ ("senior" :> 8) @@ ("intern" :> -20),
      company_tiers |-> ("tier1" :> 10) @@ ("tier2" :> 7) @@ ("tier3" :> 5),
      preferred_locations |-> ("remote" :> 12) @@ ("hybrid" :> 8),
      adaptive_weights |-> [title_boosts |-> <<>>, company_boosts |-> <<>>] ]

\* an engine built from a user's configuration, with weights the built-in
\* tables never use, after learn_from_outcome has written scoring_weights.json
ConfiguredEngine ==
    [ config |-> TRUE,
      keyword_weights |-> ("rust" :> 5) @@ ("cobol" :> -4),
      seniority_boosts |-> ("staff" :> 30) @@ ("intern" :> -20),
      company_tiers |-> ("dream" :> 15),
      preferred_locations |-> ("remote" :> 12) @@ ("san diego" :> 20),
      adaptive_weights |->
          [ title_boosts |-> ("product" :> 5) @@ ("manager" :> 5) @@ ("sales" :> -5),
            company_boosts |-> ("acme" :> 5) @@ ("initech" :> -5) ] ]

Engines == {DefaultEngine, ConfiguredEngine}

\* job["posted_date"]: absent, not a date, or a date some days before now
PostedDates ==
    {[kind |-> "absent", days_old |-> 0], [kind |-> "unparsable", days_old |-> 0]}
    \cup {[kind |-> "date", days_old |-> d] : d \in {0, 2, 5, 10, 30}}

\* the jobs an engine can be given, each as what the engine's substring tests
\* find in it: the keywords in title and description, the target roles and
\* the first seniority level in the title, the preferred locations in the
\* location, the first company tier with a name in company or description,
\* the learned patterns in title and company
ScoredJobs(e) ==
    [ keywords : SUBSET DOMAIN e.keyword_weights,
      roles : SUBSET {"product manager", "quality assurance"},
      level : {""} \cup DOMAIN e.seniority_boosts,
      locations : {{}} \cup {{l} : l \in DOMAIN e.preferred_locations},
      tier : {""} \cup DOMAIN e.company_tiers,
      posted : PostedDates,
      easy_apply : BOOLEAN,
      salary_range : BOOLEAN,
      watchlisted : IF e.config THEN BOOLEAN ELSE {FALSE},
      title_patterns : {P \in SUBSET DOMAIN e.adaptive_weights.title_boosts :
                            Cardinality(P) # 1},
      company_patterns : {P \in SUBSET DOMAIN e.adaptive_weights.company_boosts :
                              Cardinality(P) < 2} ]

\* ScoringEngine._score_keywords
_score_keywords(e, job) ==
    LET score_ == SumOver(e.keyword_weights, job.keywords)
        max_possible == SumOver(e.keyword_weights, DOMAIN e.keyword_weights)
    IN IF max_possible = 0 THEN 0
       ELSE Min2(30, TruncDiv(score_ * 30, max_possible))

\* ScoringEngine._score_title
_score_title(job) == Min2(20, MaxOver(target_roles, job.roles))

\* ScoringEngine._score_seniority
_score_seniority(e, job) ==
    Max2(0, Min2(15, 8 + (IF job.level = "" THEN 0 ELSE e.seniority_boosts[job.level])))

\* ScoringEngine._score_location
_score_location(e, job) == Min2(15, MaxOver(e.preferred_locations, job.locations))

\* ScoringEngine._score_company
_score_company(e, job) ==
    IF job.tier = "" THEN 3 ELSE Min2(10, e.company_tiers[job.tier])

\* ScoringEngine._score_freshness
_score_freshness(job) ==
    IF job.posted.kind # "date" THEN 5
    ELSE IF job.posted.days_old <= 1 THEN 10
    ELSE IF job.posted.days_old <= 3 THEN 8
    ELSE IF job.posted.days_old <= 7 THEN 6
    ELSE IF job.posted.days_old <= 14 THEN 4
    ELSE 2

\* score lines 153-165: the bonuses
Bonuses(job) ==
    Min2((IF job.easy_apply THEN 3 ELSE 0) + (IF job.salary_range THEN 2 ELSE 0)
             + (IF job.watchlisted THEN 5 ELSE 0),
         10)

\* _apply_adaptive without its final clamp
_apply_adaptive_unclamped(e, job) ==
    SumOver(e.adaptive_weights.title_boosts, job.title_patterns)
        + SumOver(e.adaptive_weights.company_boosts, job.company_patterns)

\* ScoringEngine._apply_adaptive
_apply_adaptive(e, job) ==
    Max2(0 - 10,
         Min2(10, SumOver(e.adaptive_weights.title_boosts, job.title_patterns)
                      + SumOver(e.adaptive_weights.company_boosts, job.company_patterns)))

\* score lines 134-169: the breakdown
Breakdown(e, job) ==
    [ keywords |-> _score_keywords(e, job),
      title |-> _score_title(job),
      seniority |-> _score_seniority(e, job),
      location |-> _score_location(e, job),
      company |-> _score_company(e, job),
      freshness |-> _score_freshness(job),
      bonuses |-> Bonuses(job),
      adaptive |-> _apply_adaptive(e, job) ]

\* sum(breakdown.values())
RawTotal(b) ==
    b.keywords + b.title + b.seniority + b.location + b.company + b.freshness
        + b.bonuses + b.adaptive

\* ---- ScoringEngine.score(job) on an engine of either configuration
ScoreJob ==
    /\ scoring = NoScoring
    /\ \E e \in Engines, strategy \in {"balanced"} :
       \E job \in ScoredJobs(e) :
        /\ scoring' = [ breakdown |-> Breakdown(e, job),
                        result |-> score(strategy, RawTotal(Breakdown(e, job))) ]
        /\ UNCHANGED <<coreVars, extraVars, disco, ai, persist, qa, calls>>

InitBreakdown ==
    /\ queue = <<>>
    /\ queue_file = <<>>
    /\ eng = IdleEngine
    /\ clicks = {}
    /\ time = 0
    /\ lastAdd = NoAdd
    /\ lim = RateLimiter(0)
    /\ today = 0
    /\ thr = NoThreads
    /\ waits = NoWaits
    /\ mat = EmptyMaterials
    /\ ParkExtra
    /\ ParkMore

NextBreakdown == ScoreJob

SpecBreakdown == InitBreakdown /\ [][NextBreakdown]_vars

\* ---------------------------------------------------------- AnalyticsEngine
MaxAnalyticsCalls == 4   \* record_discovery and record_application calls

AnalyticsBoards == {"indeed", "linkedin"}
ATSTypes == {"greenhouse", "lever"}
DiscoveryCounts == {10}

\* record_application where a failed application is counted like a
\* successful one in the funnel and in the board's statistics
record_application_counting_failures(a, board, ats_type, success) ==
    LET day == setdefault(a.daily_stats, today, NewDay)
        brd == setdefault(a.board_stats, board, NewBoard)
        ats == setdefault(a.ats_stats, ats_type, NewATS)
    IN [a EXCEPT
          !.daily_stats = [day EXCEPT ![today].applied = @ + 1],
          !.funnel.applied = @ + 1,
          !.board_stats = IF board # ""
                          THEN [brd EXCEPT ![board].total_applied = @ + 1] ELSE @,
          !.ats_stats = IF ats_type # ""
                        THEN [ats EXCEPT ![ats_type].attempts = @ + 1,
                                         ![ats_type].successes = @ + 1]
                        ELSE @]

\* AnalyticsEngine.record_application(board, ats_type, success); "" stands
\* for a falsy board or ats_type
record_application(a, board, ats_type, success) ==
    LET day == setdefault(a.daily_stats, today, NewDay)
        brd == setdefault(a.board_stats, board, NewBoard)
        ats == setdefault(a.ats_stats, ats_type, NewATS)
    IN IF success
       THEN [a EXCEPT
               !.daily_stats = [day EXCEPT ![today].applied = @ + 1],
               !.funnel.applied = @ + 1,
               !.board_stats = IF board # ""
                               THEN [brd EXCEPT ![board].total_applied = @ + 1] ELSE @,
               !.ats_stats = IF ats_type # ""
                             THEN [ats EXCEPT ![ats_type].attempts = @ + 1,
                                              ![ats_type].successes = @ + 1]
                             ELSE @]
       ELSE [a EXCEPT
               !.daily_stats = [day EXCEPT ![today].errors = @ + 1],
               !.ats_stats = IF ats_type # ""
                             THEN [ats EXCEPT ![ats_type].attempts = @ + 1,
                                              ![ats_type].failures = @ + 1]
                             ELSE @]

\* the arguments a record_application call can have
ApplicationArgs == (AnalyticsBoards \cup {""}) \X (ATSTypes \cup {""}) \X BOOLEAN

\* the number of record_application calls so far whose arguments satisfy Test
CallsWith(Test(_)) ==
    LET RECURSIVE Sum(_)
        Sum(S) == IF S = {} THEN 0
                  ELSE LET k == CHOOSE k \in S : TRUE
                       IN (IF Test(k) THEN calls.applications[k] ELSE 0) + Sum(S \ {k})
    IN Sum(ApplicationArgs)

\* ---- record_discovery and record_application calls on a new document
RecordDiscovery ==
    /\ calls.n < MaxAnalyticsCalls
    /\ \E board \in AnalyticsBoards, count \in DiscoveryCounts :
          analytics' = record_discovery(analytics, board, count)
    /\ calls' = [calls EXCEPT !.n = @ + 1, !.last = <<"record_discovery">>]
    /\ UNCHANGED <<coreVars, dd, fill, outcomes, schedVars,
                   scoring, disco, ai, persist, qa>>

RecordApplication ==
    /\ calls.n < MaxAnalyticsCalls
    /\ \E k \in ApplicationArgs :
          /\ analytics' = record_application(analytics, k[1], k[2], k[3])
          /\ calls' = [calls EXCEPT !.n = @ + 1, !.applications[k] = @ + 1,
                                    !.last = <<"record_application", k>>]
    /\ UNCHANGED <<coreVars, dd, fill, outcomes, schedVars,
                   scoring, disco, ai, persist, qa>>

InitAnalytics ==
    /\ queue = <<>>
    /\ queue_file = <<>>
    /\ eng = IdleEngine
    /\ clicks = {}
    /\ time = 0
    /\ lastAdd = NoAdd
    /\ lim = RateLimiter(0)
    /\ today = 0
    /\ thr = NoThreads
    /\ waits = NoWaits
    /\ mat = EmptyMaterials
    /\ dd = NoDedup
    /\ fill = NoFill
    /\ outcomes = NoOutcomes
    /\ analytics = EmptyAnalytics
    /\ minute = 0
    /\ last_run = <<>>
    /\ sch = NoSched
    /\ scoring = NoScoring
    /\ disco = NoDisco
    /\ ai = NoAI
    /\ persist = NoPersist
    /\ qa = NoQA
    /\ calls = [n |-> 0, applications |-> [k \in ApplicationArgs |-> 0], last |-> <<>>]

NextAnalytics == RecordDiscovery \/ RecordApplication

SpecAnalytics == InitAnalytics /\ [][NextAnalytics]_vars

\* -------------------------------------------------------------- properties
FinalStatuses == {"ready-for-review", "submitted", "error"}

SubmitControls == {"submit", "submit_application"}

\* C1: in process_queue a record becomes `submitted`, and a submit control is
\* clicked, only when the mode is full-auto and dry_run is false; in every
\* other case no submit control is clicked and every record that finished
\* filling is at ready-for-review.
C1_SubmitOnlyInFullAuto ==
    eng.pc \in {"loop", "returned"} /\ eng.caller = "cli" =>
        /\ ( \/ clicks \cap SubmitControls # {}
             \/ \E p \in eng.moved : queue[p].status = "submitted" )
           => (eng.mode = "full-auto" /\ ~eng.dry_run)
        /\ (eng.dry_run \/ eng.mode # "full-auto")
           => \A p \in eng.finished : queue[p].status = "ready-for-review"

\* C2: when process_queue returns, every record it moved from queued to
\* filling is at ready-for-review, submitted or error; none is left in filling.
C2_NoRecordLeftFilling ==
    eng.pc = "returned" =>
        \A p \in eng.moved : queue[p].status \in FinalStatuses

\* C4: add_jobs(L) right after add_jobs(L) adds nothing; the queue never holds
\* two records with one job id, nor a record made from a `skip` job; and each
\* call returns the number of records it appended.
C4_AddJobsIdempotent ==
    /\ lastAdd.repeat => lastAdd.added = 0
    /\ \A i, j \in DOMAIN queue : i # j => queue[i].job_id # queue[j].job_id
    /\ \A i \in DOMAIN queue : queue[i].apply_type # "skip"
    /\ lastAdd.calls > 0 => Len(queue) = lastAdd.before + lastAdd.added
    /\ queue_file = queue

\* C4 witness: a list with a job that was appended is passed a second time
C4_Witness ==
    /\ lastAdd.repeat
    /\ \E i \in DOMAIN lastAdd.jobs :
           /\ lastAdd.jobs[i].apply_type # "skip"
           /\ \E k \in DOMAIN queue : queue[k].job_id = lastAdd.jobs[i].job_id
    /\ \E i \in DOMAIN lastAdd.jobs : lastAdd.jobs[i].apply_type = "skip"

\* one step of a wait call: granted exactly below the cap, refused without effect
\* C3 (step): within one calendar day wait(board) is granted exactly while fewer than
\* daily_cap wait calls were made to the board that day, the board's count
\* never exceeds its cap, and a refused wait returns at once, leaving the
\* count and the last-request timestamp as they were.
C3_WaitStep ==
    \A b \in LimiterBoards :
        waits'[b] = waits[b] + 1 =>
            LET granted == \E t \in Threads : thr[t].pc = "idle" /\ thr'[t].pc # "idle"
            IN /\ granted <=> waits[b] < _get_rate(b).daily_cap
               /\ granted => lim'.daily_counts[b] = waits[b] + 1
               /\ ~granted =>
                     /\ thr' = thr
                     /\ lim'.daily_counts[b] = lim.daily_counts[b]
                     /\ lim'.last_request[b] = lim.last_request[b]

\* C3: within one calendar day wait(board) returns true for exactly the first
\* daily_cap calls, the count never exceeds the cap, and a refused wait returns
\* at once without touching the count or the last-request timestamp.
C3_DailyCap ==
    /\ [](thr # NoThreads =>
            \A b \in LimiterBoards : lim.daily_counts[b] <= _get_rate(b).daily_cap)
    /\ [][C3_WaitStep]_vars

\* C3 witness: one call past the cap was refused while a granted caller sleeps
\* under backoff
C3_Witness ==
    /\ thr # NoThreads
    /\ waits["indeed"] = CapIndeed + 1
    /\ lim.daily_counts["indeed"] = CapIndeed
    /\ lim.backoff_level["indeed"] > 0
    /\ \E t \in Threads : thr[t].pc = "sleep" /\ thr[t].board = "indeed"

\* C10: every record deduplicate returns lists in `sources` the board_source
\* of every input posting merged into it, by url, by fuzzy match, or by both.
C10_SourcesCoverMerged ==
    dd # NoDedup =>
        \A r \in DOMAIN dd.result :
            \A i \in dd.result[r].members :
                dd.input[i].board_source \in dd.result[r].sources
\* C7: once record_pairing_outcome has succeeded for a pairing, a further
\* call for that pairing changes neither the pairing's outcome nor any
\* variant's outcome counters.
C7_OutcomeRecordedOnce ==
    outcomes # <<>> /\ outcomes.repeat => outcomes.after = outcomes.before

\* C8: a resume variant whose path validates is the file uploaded; without a
\* variant, or with one whose path fails validation, the default resume is
\* uploaded; an invalid path never aborts the fill.
C8_VariantFileUploaded ==
    fill # NoFill =>
        LET p == get_resume_variant(mat, fill.resume_variant_id)
            valid == /\ fill.resume_variant_id # ""
                     /\ p # 0
                     /\ mat.resume_variants[p].file_path \in InsidePaths
        IN /\ ~fill.raised
           /\ fill.result.uploaded # "" =>
                 fill.result.uploaded = IF valid THEN mat.resume_variants[p].file_path
                                        ELSE fill.resume_path
\* C5: whenever the scheduler's apply task runs with the engine's effective
\* mode semi-auto (named in the schedule, or the default when the apply block
\* names no mode), process_queue is called with dry_run = true, so the pass
\* neither submits nor runs the fill path that is not a dry run.
C5_SemiAutoForcesDryRun ==
    sch # NoSched =>
        /\ (sch.apply.called /\ sch.apply.mode = "semi-auto") => sch.apply.dry_run
        /\ (eng.caller = "scheduler" /\ eng.pc = "loop" /\ eng.mode = "semi-auto")
              => eng.dry_run

\* C6: once run_once has executed a task inside the window of a configured
\* time t, should_run(task) is false at every later check inside that window,
\* so the task is executed at most once per configured time.
C6_OncePerWindow ==
    sch # NoSched =>
        /\ \A f \in sch.fired :
              (minute > f[3] /\ f[2] \in WindowsAt(sch.schedule, f[1], minute))
                  => ~should_run(sch.schedule, f[1], minute, sch.current_day, last_run)
        /\ \A f, g \in sch.fired : (f[1] = g[1] /\ f[2] = g[2]) => f[3] = g[3]

\* C9: a due discovery pass that returns at least one posting records the
\* per-board counts in analytics, adds every scored posting that is not a
\* skip to the application queue, and records the firing time of the task.
C9_DiscoveryPassRecorded ==
    (sch # NoSched /\ sch.disc.ran /\ sch.disc.raw # <<>>) =>
        /\ \A i \in DOMAIN sch.disc.raw :
              /\ sch.disc.raw[i].board_source \in DOMAIN analytics.board_stats
              /\ analytics.board_stats[sch.disc.raw[i].board_source].total_discovered >= 1
        /\ \A i \in DOMAIN sch.disc.scored :
              sch.disc.scored[i].apply_type # "skip" =>
                  \E k \in DOMAIN queue_file :
                      queue_file[k].job_id = sch.disc.scored[i].job_id
        /\ \E k \in DOMAIN last_run : k[1] = "discovery" /\ last_run[k] = sch.disc.at

\* two listings match on both keys of the fuzzy phase
SameListing(a, b) ==
    /\ fuzzy_match(normalize_title(a.title), normalize_title(b.title), TITLE_THRESHOLD)
    /\ fuzzy_match(normalize_company(a.company), normalize_company(b.company),
                   COMPANY_THRESHOLD)

\* the candidates of the fuzzy phase for the last input
FuzzyCandidates == UrlPhase(TagMembers(dd.input), UrlKeys(dd.input, <<>>))

\* C11: any two candidates of the fuzzy phase whose normalized titles and
\* normalized companies both fuzzy-match end up in the same returned record,
\* and no two returned records still match each other on title and company.
C11_MatchingCandidatesMerged ==
    dd # NoDedup =>
        /\ \A i, j \in DOMAIN FuzzyCandidates :
              (i < j /\ SameListing(FuzzyCandidates[i], FuzzyCandidates[j])) =>
                  \E r \in DOMAIN dd.result :
                      (FuzzyCandidates[i].members \cup FuzzyCandidates[j].members)
                          \subseteq dd.result[r].members
        /\ \A r, q \in DOMAIN dd.result :
              r # q => ~SameListing(dd.result[r], dd.result[q])

\* C12: a job scoring exactly 60 gets apply_type quick-apply under the balanced
\* strategy and skip under the targeted strategy, and below 80 full-prep is
\* never returned under balanced or wide-net.
C12_StrategyThresholding ==
    scoring # NoScoring =>
        /\ (scoring.total = 60 /\ scoring.strategy = "balanced") =>
               scoring.apply_type = "quick-apply"
        /\ (scoring.total = 60 /\ scoring.strategy = "targeted") =>
               scoring.apply_type = "skip"
        /\ (scoring.total < 80 /\ scoring.strategy \in {"balanced", "wide-net"}) =>
               scoring.apply_type # "full-prep"

\* C13: within one discovery run, once a CAPTCHA or robot check was detected
\* on a board and reported as blocked, no further request is made to that
\* board for the rest of the run, while the remaining boards are still scraped.
C13_BlockedBoardLeftAlone ==
    disco # NoDisco => disco.late = {}

\* C14: with AI enabled and a credential present, a failure while performing
\* a generation call (network error, gateway error, or the client being
\* unavailable or failing to construct) makes the call return absent, is never
\* raised to the caller, and adds nothing to the cache or the usage ledger.
C14_FailedCallReturnsAbsent ==
    (/\ ai # NoAI
     /\ ai.enabled
     /\ ai.last # NoCall
     /\ ai.last.prompt \notin ai.last.memory_before
     /\ \/ ai.last.env.api # "ok"
        \/ ai.last.env.openai # "ok" /\ ai.last.raised # "")
    => /\ ai.last.raised = ""
       /\ ai.last.ret = "absent"
       /\ ai.memory = ai.last.memory_before
       /\ ai.total_calls = ai.last.usage_before

\* C15: if the process crashes at any point while the queue document is being
\* persisted, a later load yields the complete previous content or the
\* complete new content: records persisted before the crash are never lost and
\* the queue is never loaded as empty or truncated.
C15_CrashKeepsDocument ==
    (persist # NoPersist /\ persist.pc = "idle" /\ persist.loaded)
        => ~persist.lost

\* C16: an exception while process_queue handles one record sets that record
\* to error and processing goes on; when process_queue returns, `processed`
\* equals the number of pending records it took and `details` holds exactly
\* one entry per such record.
C16_ResultsCountEveryRecord ==
    (eng.pc = "returned" /\ eng.taken > 0) =>
        /\ eng.results.processed = eng.taken
        /\ eng.results.details = eng.taken
        /\ eng.results.errors =
               Cardinality({i \in DOMAIN queue : queue[i].status = "error"})

\* C17: get_answer returns confidence 1.0 whenever the incoming question and a
\* stored question are equal after normalization (lowercased, trailing
\* punctuation and whitespace stripped).
C17_ExactAfterNormalization ==
    (qa # NoQA /\ qa.last # NoAnswer) =>
        ((\E e \in DOMAIN qa.entries :
              StripTrailing(lower(qa.entries[e].question))
                  = StripTrailing(lower(qa.last.question)))
         => (qa.last.found /\ qa.last.confidence = 1000))

\* one report call on source b: what it does to b's level and to the others
C18_ReportStep ==
    \A b \in BoardNames :
        /\ lim' = report_throttled(lim, b) =>
               lim'.backoff_level[b] =
                   (IF lim.backoff_level[b] < 5 THEN lim.backoff_level[b] + 1 ELSE 5)
        /\ lim' = report_success(lim, b) =>
               lim'.backoff_level[b] =
                   (IF lim.backoff_level[b] > 0 THEN lim.backoff_level[b] - 1 ELSE 0)
        /\ lim' = report_blocked(lim, b) => lim'.backoff_level[b] = 5
        /\ (\/ lim' = report_throttled(lim, b)
            \/ lim' = report_success(lim, b)
            \/ lim' = report_blocked(lim, b))
           => \A c \in BoardNames \ {b} :
                  lim'.backoff_level[c] = lim.backoff_level[c]

\* C18: under any sequence of report_success, report_throttled and
\* report_blocked calls every source's backoff level stays in 0..5: throttled
\* adds 1 up to the ceiling 5, success subtracts 1 down to the floor 0, blocked
\* sets it to 5, and a report for one source never changes another's level.
C18_BackoffBounded ==
    /\ [](\A b \in BoardNames : lim.backoff_level[b] \in 0..5)
    /\ [][C18_ReportStep]_vars

\* C18 witness: one source at the ceiling, another back at the floor after a
\* success, a third in between
C18_Witness ==
    /\ thr = NoThreads
    /\ lim.backoff_level["indeed"] = 5
    /\ lim.backoff_level["linkedin"] = 4
    /\ lim.backoff_level["career_page"] = 0
    /\ lim.backoff_level["default"] = 1

\* one step of the limiter taken while its date is behind the calendar
C19_ResetStep ==
    lim.daily_date # today =>
        /\ (\E b \in BoardNames : waits'[b] = waits[b] + 1) => lim'.daily_date = today
        /\ lim'.daily_date # lim.daily_date =>
               /\ lim'.daily_date = today
               /\ \A b \in BoardNames :
                     /\ lim'.backoff_level[b] = 0
                     /\ lim'.daily_counts[b] = (IF waits'[b] = waits[b] + 1 THEN 1 ELSE 0)
                     /\ lim'.daily_counts[b] < _get_rate(b).daily_cap
               /\ (\E b \in BoardNames : waits'[b] = waits[b] + 1) =>
                     \E t \in Threads : thr[t].pc = "idle" /\ thr'[t].pc # "idle"

\* C19: when the local date has advanced since the limiter last checked, the
\* next can_request or wait call first resets every source's request count
\* and backoff level to 0, so a source that had reached its daily cap is
\* allowed again and its backoff level reads 0.
C19_DateRolloverResets ==
    /\ [](thr # NoThreads =>
            (lim.daily_date = today =>
                \A b \in BoardNames : lim.daily_counts[b] <= waits[b]))
    /\ [][thr # NoThreads => C19_ResetStep]_vars

\* C19 witness: both threads reserved their slot the day before, and the
\* limiter has since reset for the new day
C19_Witness ==
    /\ thr # NoThreads
    /\ today = 1
    /\ lim.daily_date = 1
    /\ \A t \in Threads : thr[t].pc # "idle" /\ thr[t].board = "indeed"
    /\ lim.daily_counts["indeed"] = 0
    /\ lim.backoff_level["indeed"] = 0

\* the sector select_best_materials detected for the job of a pairing
SectorOfPairing(p) ==
    detect_sector((CHOOSE job \in JobPool : job.job_id = p.job_id).title)

\* a chosen variant is active, and is general-tagged only when the pool has
\* no active variant tagged with the sector
ChosenFromSectorPool(variants, id, sector) ==
    \A i \in DOMAIN variants :
        variants[i].id = id =>
            /\ variants[i].is_active
            /\ (variants[i].sector = "general" /\ sector # "general") =>
                   ~\E k \in DOMAIN variants :
                       variants[k].is_active /\ variants[k].sector = sector

\* C20: select_best_materials only returns active variants, and for each
\* material type it returns a general-tagged variant only when no active
\* variant tagged with the job's detected sector exists for that type.
C20_GeneralOnlyAsFallback ==
    \A n \in DOMAIN mat.material_pairings :
        /\ ChosenFromSectorPool(mat.resume_variants,
                                mat.material_pairings[n].resume_variant_id,
                                SectorOfPairing(mat.material_pairings[n]))
        /\ ChosenFromSectorPool(mat.cover_letter_variants,
                                mat.material_pairings[n].cover_letter_variant_id,
                                SectorOfPairing(mat.material_pairings[n]))

\* C21: a record_pairing_outcome call with an outcome outside the five known
\* kinds, or with a pairing id that no pairing has, returns False, leaves
\* every pairing and every variant as it was and does not rewrite the file
C21_RejectedCallChangesNothing ==
    (outcomes.calls > 0 /\ ~outcomes.known)
        => /\ ~outcomes.ok
           /\ outcomes.after = outcomes.before
           /\ ~outcomes.saved

\* a call with an unknown outcome was made on a document that has a pairing
C21_Witness ==
    /\ outcomes.calls > 0
    /\ ~outcomes.known
    /\ outcomes.before.material_pairings # <<>>
    /\ mat = outcomes.before

\* a failed record_application leaves the funnel's applied count and every
\* board's total_applied as they were
C22_FailedStep ==
    (calls'.n = calls.n + 1 /\ calls'.last[1] = "record_application"
        /\ ~calls'.last[2][3])
    => /\ analytics'.funnel.applied = analytics.funnel.applied
       /\ DOMAIN analytics'.board_stats = DOMAIN analytics.board_stats
       /\ \A b \in DOMAIN analytics.board_stats :
              analytics'.board_stats[b].total_applied
                  = analytics.board_stats[b].total_applied

\* C22: from an empty analytics document, after any record_discovery and
\* record_application calls, funnel applied is the number of successful
\* record_application calls, each board's total_applied is the number of its
\* successful applications, every ATS has attempts = successes + failures
\* with successes and failures the numbers of its successful and failed
\* calls, and a failed application changes neither funnel applied nor any
\* board's total_applied.
C22_FunnelArithmetic ==
    /\ [](/\ analytics.funnel.applied = CallsWith(LAMBDA k : k[3])
          /\ \A b \in AnalyticsBoards :
                 (IF b \in DOMAIN analytics.board_stats
                  THEN analytics.board_stats[b].total_applied ELSE 0)
                     = CallsWith(LAMBDA k : k[1] = b /\ k[3])
          /\ \A t \in DOMAIN analytics.ats_stats :
                 LET st == analytics.ats_stats[t]
                 IN /\ st.attempts = st.successes + st.failures
                    /\ st.successes = CallsWith(LAMBDA k : k[2] = t /\ k[3])
                    /\ st.failures = CallsWith(LAMBDA k : k[2] = t /\ ~k[3])
          /\ \A t \in ATSTypes \ DOMAIN analytics.ats_stats :
                 CallsWith(LAMBDA k : k[2] = t) = 0)
    /\ [][C22_FailedStep]_vars

\* record_discovery("indeed", 10), two successful and one failed application
\* to indeed through greenhouse
C22_Witness ==
    /\ calls.n = 4
    /\ calls.applications[<<"indeed", "greenhouse", TRUE>>] = 2
    /\ calls.applications[<<"indeed", "greenhouse", FALSE>>] = 1
    /\ analytics.funnel.discovered = 10
    /\ analytics.funnel.applied = 2
    /\ analytics.board_stats["indeed"].total_applied = 2
    /\ analytics.ats_stats["greenhouse"]
           = [attempts |-> 3, successes |-> 2, failures |-> 1]

\* C23: for every job, configuration and state of the learned weights, score
\* returns an integer total in 0..100 and a breakdown in which keywords is at
\* most 30, title at most 20, seniority in 0..15, location at most 15,
\* company at most 10, freshness at most 10, bonuses at most 10 and the
\* adaptive adjustment in -10..10.
C23_TotalAndDimensionsCapped ==
    scoring # NoScoring =>
        /\ scoring.result.total \in 0..100
        /\ scoring.breakdown.keywords \in Int /\ scoring.breakdown.keywords <= 30
        /\ scoring.breakdown.title <= 20
        /\ scoring.breakdown.seniority \in 0..15
        /\ scoring.breakdown.location <= 15
        /\ scoring.breakdown.company <= 10
        /\ scoring.breakdown.freshness <= 10
        /\ scoring.breakdown.bonuses <= 10
        /\ scoring.breakdown.adaptive \in (0 - 10)..10

\* a job whose dimensions sum to more than 100, with learned boosts of more
\* than 10 in all, scored 100
C23_Witness ==
    /\ scoring # NoScoring
    /\ RawTotal(scoring.breakdown) > 100
    /\ scoring.breakdown.adaptive = 10
    /\ scoring.breakdown.seniority = 15
    /\ scoring.result.total = 100

\* one _call on (model, prompt): the lookup returns the response last cached
\* for the pair when that was less than the TTL ago and misses otherwise,
\* and an entry found on disk is in memory afterwards
C24_LookupStep ==
    (ai'.lookups = ai.lookups + 1) =>
        LET k == <<ai'.last.model, ai'.last.prompt>>
            fresh == k \in DOMAIN ai.cached /\ time < ai.cached[k].ts + CacheTTL
        IN /\ fresh => ai'.last.ret = ai.cached[k].response
           /\ ~fresh => ai'.last.ret = "None"
           /\ ai'.last.source = "disk" =>
                 LET key == _key(ai'.last.prompt, ai'.last.model)
                 IN /\ key \in DOMAIN ai'.memory
                    /\ ai'.memory[key].response = ai.cached[k].response
                    /\ ai'.memory[key].ts = ai.cached[k].ts

\* C24: after a response r is cached for (model, prompt) at time t, a lookup
\* returns r at every time before t + TTL and misses at every time from
\* t + TTL on, whether the entry is in memory or only on disk, and a fresh
\* disk entry found by a lookup is copied into memory.
C24_ServedOnlyWhileFresh == [][C24_LookupStep]_vars

\* a new process found on disk a response cached an hour before, and the
\* clock has since passed the entry's expiry
C24_Witness ==
    /\ ai.last.source = "disk"
    /\ ai.last.ret \in Responses
    /\ ai.last.at > ai.cached[<<ai.last.model, ai.last.prompt>>].ts
    /\ time >= ai.cached[<<ai.last.model, ai.last.prompt>>].ts + CacheTTL

\* action log a is the beginning of action log b
IsPrefix(a, b) == Len(a) <= Len(b) /\ SubSeq(b, 1, Len(a)) = a

\* C25: under add_jobs, update_status and process_queue calls, and when a new
\* process reloads the queue from its file, no record leaves the queue and
\* each record's action_log only grows: a status change appends to it and no
\* entry already there is changed or dropped.
C25_RecordsAndLogsOnlyGrow ==
    [][ /\ Len(queue') >= Len(queue)
        /\ \A i \in DOMAIN queue :
              /\ queue'[i].id = queue[i].id
              /\ IsPrefix(queue[i].action_log, queue'[i].action_log)
              /\ queue'[i].status # queue[i].status
                    => Len(queue'[i].action_log) > Len(queue[i].action_log) ]_vars

\* the records of the running engine whose page was requested from board
NavigatedTo(board) ==
    {p \in eng.navigated : _get_board_name(queue[p].url) = board}

\* C26: process_queue requests no page for a record whose wait(source)
\* returned False, so the requests made to a source in one day, those of the
\* discovery pass included, never exceed the source's daily cap.
C26_NoNavigationPastCap ==
    /\ eng.refused \cap eng.navigated = {}
    /\ \A board \in BoardNames :
          NavigatedTo(board) # {} =>
              lim.daily_counts[board] + Cardinality(NavigatedTo(board) \cap eng.refused)
                  <= _get_rate(board).daily_cap

\* the counter of variant v that _increment_outcome_counter bumps for outcome
OutcomeCounter(v, outcome) ==
    CASE outcome = "callback" -> v.callbacks
      [] outcome = "interview" -> v.interviews
      [] outcome = "offer" -> v.offers
      [] outcome = "rejected" -> v.rejections
      [] outcome = "ghosted" -> v.ghosted

\* one successful `materials --record-outcome PAIRING_ID OUTCOME` command
C27_CommandStep ==
    (outcomes'.calls = outcomes.calls + 2) =>
        LET entry == analytics'.outcome_tracking[Len(analytics'.outcome_tracking)]
            pr == mat.material_pairings[get_pairing(mat, entry.material_pairing_id)]
            rv == get_resume_variant(mat, pr.resume_variant_id)
            cv == get_cover_letter_variant(mat, pr.cover_letter_variant_id)
        IN /\ Len(analytics'.outcome_tracking) = Len(analytics.outcome_tracking) + 1
           /\ rv # 0 =>
                 OutcomeCounter(mat'.resume_variants[rv], entry.outcome)
                     = OutcomeCounter(mat.resume_variants[rv], entry.outcome) + 1
           /\ cv # 0 =>
                 OutcomeCounter(mat'.cover_letter_variants[cv], entry.outcome)
                     = OutcomeCounter(mat.cover_letter_variants[cv], entry.outcome) + 1

\* C27: recording one outcome for a pairing through the materials
\* --record-outcome command adds exactly 1 to the matching outcome counter of
\* each of the pairing's two variants and appends exactly one
\* outcome_tracking entry to analytics.
C27_CommandCountsOnce == [][C27_CommandStep]_vars

\* a wait(source) call returns True (its second locked section stamps the
\* source): the return before it for the same source, which stamped
\* last_request, lies at least min_delay * backoff_factor ^ level back
C28_ReturnStep ==
    \A t \in Threads :
        (thr[t].pc = "stamp" /\ thr'[t].pc = "idle") =>
            LET board == thr[t].board
                rate == _get_rate(board)
            IN time - lim.last_request[board]
                   >= rate.min_delay * Pow(rate.backoff_factor, lim.backoff_level[board])

\* C28: for any source, any two wait(source) calls that return True, also
\* from concurrent threads, return at least min_delay * backoff_factor ^ level
\* seconds apart: two callers never both finish waiting for one source
\* within one delay interval.
C28_ReturnsSpacedByDelay == [][C28_ReturnStep]_vars

\* C29: after any sequence of add_jobs calls, two of them within one clock
\* second included, every record of the queue has an id of its own, so that
\* update_status(id, ...) acts on the record the id was issued for.
C29_DistinctIds ==
    \A i, j \in DOMAIN queue :
        i # j =>
            /\ queue[i].id # queue[j].id
            /\ FirstWithId(queue, queue[j].id) = j

\* C30: after deduplicate on a fresh engine, total_input = unique_output +
\* duplicates_found: every input posting absorbed into another record, by
\* identical url or by fuzzy match, is counted once in duplicates_found.
C30_StatsAddUp ==
    dd # NoDedup =>
        dd.stats.total_input = dd.stats.unique_output + dd.stats.duplicates_found
====
